---- MODULE Spec2Model ----
(***************************************************************************)
(* Model of the school administration backend: the relational store (with  *)
(* its unique indexes and foreign keys), the role guard, and the           *)
(* controllers for schools, tutors, grades/sections/subjects and tutor     *)
(* assignments.                                                            *)
(*                                                                         *)
(* A request is handled in two steps where the controller reads outside    *)
(* its transaction: a Begin step (validation and the reads that precede    *)
(* the write) and a Commit step (the write or $transaction, the audit      *)
(* entry and the response).  Other requests may run between the two.       *)
(* A $transaction is one atomic step that either commits every write of    *)
(* its body or, when a statement throws, none.                             *)
(***************************************************************************)
EXTENDS Integers, Sequences, FiniteSets, TLC

VARIABLES
    schools,      \* School rows       [id, code]
    users,        \* User rows         [id, email, name, role, schoolId, tutorId]
    tutors,       \* Tutor rows        [id, email, name, schoolId, isActive]
    grades,       \* Grade rows        [id, name, schoolId, order, isActive]
    sections,     \* Section rows      [id, name, gradeId, classTutorId, isActive]
    subjects,     \* SectionSubject    [id, name, sectionId, isActive]
    assignments,  \* TutorSubjectAssignment [id, tutorId, sectionSubjectId, isActive]
    auditLog,     \* AuditLog entries  [action, entityId] (kept as a set)
    nextId,       \* number of row ids handed out so far, plus one
    reqs,         \* per request slot: the request between its Begin and Commit
    resp,         \* the response sent last
    gate          \* the role guard's last input and outcome

vars == <<schools, users, tutors, grades, sections, subjects, assignments,
          auditLog, nextId, reqs, resp, gate>>

dbvars == <<schools, users, tutors, grades, sections, subjects, assignments, nextId>>

(***************************************************************************)
(* Bounds                                                                  *)
(***************************************************************************)
\* Row ids are never reused; at most MaxId rows are created in one behaviour.
MaxId == 9

\* the longest key of an assignments map
MaxKeyLen == 5

Slots == {"r1", "r2"}

NULL == "null"

Idle == [op |-> "idle"]

\* a field that is left out (of a request body, of the token, of the URL)
Undefined == "undefined"

\* ...(x !== undefined && { x }): a field of the body replaces the stored one
Patch(old, new) == IF new = Undefined THEN old ELSE new

(***************************************************************************)
(* The store                                                               *)
(***************************************************************************)
DB == [schools |-> schools, users |-> users, tutors |-> tutors, grades |-> grades,
       sections |-> sections, subjects |-> subjects, assignments |-> assignments,
       nextId |-> nextId]

SetDB(d) ==
    /\ schools' = d.schools
    /\ users' = d.users
    /\ tutors' = d.tutors
    /\ grades' = d.grades
    /\ sections' = d.sections
    /\ subjects' = d.subjects
    /\ assignments' = d.assignments
    /\ nextId' = d.nextId

\* The id the next created row gets (a uuid in the code: fresh, never reused).
Fresh(d) == ToString(d.nextId)

\* State of a sequence of statements: ok is FALSE once a statement has thrown,
\* d holds the writes made so far, id the id of the row created last.
\* err the Prisma error code of that throw.
Start(d) == [ok |-> TRUE, d |-> d, id |-> NULL, err |-> NULL]

\* P2002 unique constraint, P2003 foreign key, P2025 record not found
Throw(st, code) == [st EXCEPT !.ok = FALSE, !.err = code]

Created(st, field, row) ==
    [ok |-> TRUE, id |-> row.id, err |-> NULL,
     d |-> [st.d EXCEPT ![field] = @ \cup {row}, !.nextId = @ + 1]]

\* prisma.$transaction keeps the writes when no statement threw and keeps none otherwise
NoRollback(d, st) == st.d

Transaction(d, st) == IF st.ok THEN st.d ELSE d

\* School.create: unique index School_code_key
InsertSchool(st, code) ==
    IF ~st.ok THEN st
    ELSE IF \E s \in st.d.schools : s.code = code THEN Throw(st, "P2002")
    ELSE Created(st, "schools", [id |-> Fresh(st.d), code |-> code])

\* the hash of a generated temporary password, and the hashes of later ones
TempPassword == "p0"
Passwords == {"p1", "p2"}

\* User.create: unique User_email_key, unique User_tutorId_key (NULLs are distinct),
\* foreign keys User_schoolId_fkey and User_tutorId_fkey
InsertUser(st, email, name, phone, role, schoolId, tutorId) ==
    IF ~st.ok THEN st
    ELSE IF \/ \E u \in st.d.users : u.email = email
            \/ (tutorId # NULL /\ \E u \in st.d.users : u.tutorId = tutorId)
         THEN Throw(st, "P2002")
    ELSE IF \/ (schoolId # NULL /\ ~\E s \in st.d.schools : s.id = schoolId)
            \/ (tutorId # NULL /\ ~\E t \in st.d.tutors : t.id = tutorId)
         THEN Throw(st, "P2003")
    ELSE Created(st, "users", [id |-> Fresh(st.d), email |-> email, name |-> name,
                               phone |-> phone, password |-> TempPassword, role |-> role,
                               schoolId |-> schoolId, tutorId |-> tutorId])

(***************************************************************************)
(* Responses                                                               *)
(***************************************************************************)
NoOut == [id |-> NULL, created |-> <<>>, skipped |-> <<>>, errors |-> <<>>,
          classTutor |-> NULL]

\* n flips with every response, so that a step that responds always changes resp
Respond(op, args, status, out) ==
    resp' = [n |-> 1 - resp.n, op |-> op, args |-> args, status |-> status, out |-> out]

Responds == resp'.n # resp.n

(***************************************************************************)
(* createSchool                                                            *)
(***************************************************************************)
\* the early returns: 400, 409 (code), 409 (admin email); 0 when none applies
CreateSchoolCheck(d, body) ==
    IF ~body.valid THEN 400
    ELSE IF \E s \in d.schools : s.code = body.code THEN 409
    ELSE IF \E u \in d.users : u.email = body.adminEmail THEN 409
    ELSE 0

CreateSchoolTx(d, body) ==
    LET s1 == InsertSchool(Start(d), body.code)
    IN InsertUser(s1, body.adminEmail, body.adminName, body.adminPhone, "SCHOOL_ADMIN", s1.id,
                  NULL)

CreateSchoolBegin(r, body) ==
    /\ reqs[r] = Idle
    /\ LET c == CreateSchoolCheck(DB, body) IN
       IF c # 0
       THEN /\ Respond("createSchool", body, c, NoOut)
            /\ UNCHANGED <<dbvars, auditLog, reqs, gate>>
       ELSE /\ reqs' = [reqs EXCEPT ![r] = [op |-> "createSchool", args |-> body, snap |-> NULL]]
            /\ UNCHANGED <<dbvars, auditLog, resp, gate>>

CreateSchoolCommit(r) ==
    /\ reqs[r].op = "createSchool"
    /\ LET st == CreateSchoolTx(DB, reqs[r].args) IN
       /\ st.ok => st.d.nextId <= MaxId + 1
       /\ SetDB(Transaction(DB, st))
       /\ Respond("createSchool", reqs[r].args, IF st.ok THEN 201 ELSE 500,
                  [NoOut EXCEPT !.id = IF st.ok THEN st.id ELSE NULL])
       /\ reqs' = [reqs EXCEPT ![r] = Idle]
       /\ UNCHANGED <<auditLog, gate>>

\* the SCHOOL_ADMIN user updateSchool patches: found when the body has an admin field
SchoolAdmins(d, id) == {u \in d.users : u.schoolId = id /\ u.role = "SCHOOL_ADMIN"}

HasAdminField(args) ==
    args.adminName # Undefined \/ args.adminEmail # Undefined \/ args.adminPhone # Undefined

\* the early returns of updateSchool: 404, 409 (code taken), 409 (admin email taken)
UpdateSchoolCheck(d, args) ==
    IF ~\E x \in d.schools : x.id = args.id THEN 404
    ELSE IF /\ args.code # Undefined
            /\ args.code # (CHOOSE x \in d.schools : x.id = args.id).code
            /\ \E x \in d.schools : x.code = args.code
    THEN 409
    ELSE IF /\ HasAdminField(args)
            /\ SchoolAdmins(d, args.id) # {}
            /\ args.adminEmail # Undefined
            /\ args.adminEmail # (CHOOSE u \in SchoolAdmins(d, args.id) : TRUE).email
            /\ \E u \in d.users : u.email = args.adminEmail
    THEN 409
    ELSE 0

\* targetAdminId, read before the transaction
TargetAdminId(d, args) ==
    IF HasAdminField(args) /\ SchoolAdmins(d, args.id) # {}
    THEN (CHOOSE u \in SchoolAdmins(d, args.id) : TRUE).id
    ELSE NULL

\* tx.school.update (P2025, P2002 on School_code_key), then tx.user.update on the
\* admin (P2025, P2002 on User_email_key)
UpdateSchoolTx(d, args, targetAdminId) ==
    IF ~\E x \in d.schools : x.id = args.id THEN Throw(Start(d), "P2025")
    ELSE IF args.code # Undefined /\ \E x \in d.schools : x.id # args.id /\ x.code = args.code
    THEN Throw(Start(d), "P2002")
    ELSE LET d1 == [d EXCEPT !.schools = {IF x.id = args.id
                                          THEN [x EXCEPT !.code = Patch(@, args.code)]
                                          ELSE x : x \in @}] IN
         IF targetAdminId = NULL THEN Start(d1)
         ELSE IF ~\E u \in d.users : u.id = targetAdminId
         THEN Throw([Start(d) EXCEPT !.d = d1], "P2025")
         ELSE IF /\ args.adminEmail # Undefined
                 /\ \E u \in d.users : u.id # targetAdminId /\ u.email = args.adminEmail
         THEN Throw([Start(d) EXCEPT !.d = d1], "P2002")
         ELSE Start([d1 EXCEPT !.users =
                        {IF u.id = targetAdminId
                         THEN [u EXCEPT !.name = Patch(@, args.adminName),
                                        !.email = Patch(@, args.adminEmail),
                                        !.phone = Patch(@, args.adminPhone)]
                         ELSE u : u \in @}])

UpdateSchoolBegin(r, args) ==
    /\ reqs[r] = Idle
    /\ LET c == UpdateSchoolCheck(DB, args) IN
       IF c # 0
       THEN /\ Respond("updateSchool", args, c, NoOut)
            /\ UNCHANGED <<dbvars, auditLog, reqs, gate>>
       ELSE /\ reqs' = [reqs EXCEPT ![r] = [op |-> "updateSchool", args |-> args,
                                            snap |-> TargetAdminId(DB, args)]]
            /\ UNCHANGED <<dbvars, auditLog, resp, gate>>

UpdateSchoolCommit(r) ==
    /\ reqs[r].op = "updateSchool"
    /\ LET st == UpdateSchoolTx(DB, reqs[r].args, reqs[r].snap) IN
       /\ SetDB(Transaction(DB, st))
       /\ Respond("updateSchool", reqs[r].args, IF st.ok THEN 200 ELSE 500, NoOut)
       /\ reqs' = [reqs EXCEPT ![r] = Idle]
       /\ UNCHANGED <<auditLog, gate>>

\* School.delete with the foreign keys of the schema: User, Tutor and Grade go with
\* their School, Section with its Grade, SectionSubject with its Section, User and
\* TutorSubjectAssignment with their Tutor, TutorSubjectAssignment with its
\* SectionSubject (ON DELETE CASCADE); Section.classTutorId is cleared (SET NULL)
DeleteSchoolRow(d, id) ==
    LET ts == {t.id : t \in {t \in d.tutors : t.schoolId = id}}
        gs == {g.id : g \in {g \in d.grades : g.schoolId = id}}
        cs == {c.id : c \in {c \in d.sections : c.gradeId \in gs}}
        xs == {x.id : x \in {x \in d.subjects : x.sectionId \in cs}}
    IN [d EXCEPT !.schools = {x \in @ : x.id # id},
                 !.users = {u \in @ : u.schoolId # id /\ u.tutorId \notin ts},
                 !.tutors = {t \in @ : t.id \notin ts},
                 !.grades = {g \in @ : g.id \notin gs},
                 !.sections = {IF c.classTutorId \in ts
                               THEN [c EXCEPT !.classTutorId = NULL] ELSE c :
                                  c \in {c \in @ : c.id \notin cs}},
                 !.subjects = {x \in @ : x.id \notin xs},
                 !.assignments = {a \in @ : a.tutorId \notin ts
                                            /\ a.sectionSubjectId \notin xs}]

\* the early return of deleteSchool: 404
DeleteSchoolBegin(r, args) ==
    /\ reqs[r] = Idle
    /\ IF ~\E x \in schools : x.id = args.id
       THEN /\ Respond("deleteSchool", args, 404, NoOut)
            /\ UNCHANGED <<dbvars, auditLog, reqs, gate>>
       ELSE /\ reqs' = [reqs EXCEPT ![r] = [op |-> "deleteSchool", args |-> args,
                                            snap |-> NULL]]
            /\ UNCHANGED <<dbvars, auditLog, resp, gate>>

\* prisma.school.delete throws P2025 when the row is gone
DeleteSchoolCommit(r) ==
    /\ reqs[r].op = "deleteSchool"
    /\ LET id == reqs[r].args.id
           found == \E x \in schools : x.id = id IN
       /\ SetDB(IF found THEN DeleteSchoolRow(DB, id) ELSE DB)
       /\ Respond("deleteSchool", reqs[r].args, IF found THEN 200 ELSE 500, NoOut)
       /\ reqs' = [reqs EXCEPT ![r] = Idle]
       /\ UNCHANGED <<auditLog, gate>>

(***************************************************************************)
(* Role guard (requireRole) and the identity a token carries               *)
(***************************************************************************)
Roles == {"SUPERADMIN", "SCHOOL_ADMIN", "TEACHER"}

\* req.user is undefined when authenticate has not attached one
NoUser == [userId |-> Undefined, role |-> "none", schoolId |-> Undefined]

\* status is the response sent (0: none), nexts the number of calls of next()
RequireRoleNoScope(user, allowed, urlSchoolId) ==
    IF user = NoUser THEN [status |-> 401, nexts |-> 0]
    ELSE IF user.role \notin allowed THEN [status |-> 403, nexts |-> 0]
    ELSE [status |-> 0, nexts |-> 1]

RequireRole(user, allowed, urlSchoolId) ==
    IF user = NoUser THEN [status |-> 401, nexts |-> 0]
    ELSE IF user.role \notin allowed THEN [status |-> 403, nexts |-> 0]
    ELSE IF user.role = "SUPERADMIN" THEN [status |-> 0, nexts |-> 1]
    ELSE IF user.schoolId # urlSchoolId THEN [status |-> 403, nexts |-> 0]
    ELSE [status |-> 0, nexts |-> 1]

\* the guard of the write routes: requireRole("SUPERADMIN", "SCHOOL_ADMIN")
AdminGuard(args) == RequireRole(args.user, {"SUPERADMIN", "SCHOOL_ADMIN"}, args.schoolId).status

\* a request stopped by the guard, or by an early return c of its controller
Reject(op, args, c) ==
    /\ Respond(op, args, c, NoOut)
    /\ UNCHANGED <<dbvars, auditLog, reqs, gate>>

\* a request that passed its checks waits for its write
Proceed(r, op, args, snap) ==
    /\ reqs' = [reqs EXCEPT ![r] = [op |-> op, args |-> args, snap |-> snap]]
    /\ UNCHANGED <<dbvars, auditLog, resp, gate>>

\* an AuditLog entry
Logged(action, entityId) == [action |-> action, entityId |-> entityId]

\* a write that leaves the new entry as the only one
AuditOverwrite(action, entityId) == auditLog' = {Logged(action, entityId)}

\* logAudit appends one entry
Audit(action, entityId) == auditLog' = auditLog \cup {Logged(action, entityId)}

(***************************************************************************)
(* Tutor lifecycle                                                         *)
(***************************************************************************)
\* Tutor.create: unique Tutor_email_key, foreign key Tutor_schoolId_fkey
InsertTutor(st, email, name, phone, schoolId) ==
    IF ~st.ok THEN st
    ELSE IF \E t \in st.d.tutors : t.email = email THEN Throw(st, "P2002")
    ELSE IF ~\E s \in st.d.schools : s.id = schoolId THEN Throw(st, "P2003")
    ELSE Created(st, "tutors", [id |-> Fresh(st.d), email |-> email, name |-> name,
                                phone |-> phone,
                                schoolId |-> schoolId, isActive |-> TRUE])

\* the early returns of createTutor: 400, 404, 409 (tutor email), 409 (user email)
CreateTutorCheck(d, args) ==
    IF ~args.valid THEN 400
    ELSE IF ~\E s \in d.schools : s.id = args.schoolId THEN 404
    ELSE IF \E t \in d.tutors : t.email = args.email THEN 409
    ELSE IF \E u \in d.users : u.email = args.email THEN 409
    ELSE 0

CreateTutorTx(d, args) ==
    LET s1 == InsertTutor(Start(d), args.email, args.name, args.phone, args.schoolId)
        s2 == InsertUser(s1, args.email, args.name, args.phone, "TEACHER", args.schoolId,
                         s1.id)
    IN [s2 EXCEPT !.id = s1.id]

CreateTutorBegin(r, args) ==
    /\ reqs[r] = Idle
    /\ LET g == AdminGuard(args)
           c == CreateTutorCheck(DB, args) IN
       IF g # 0 THEN Reject("createTutor", args, g)
       ELSE IF c # 0 THEN Reject("createTutor", args, c)
       ELSE Proceed(r, "createTutor", args, NULL)

CreateTutorCommit(r) ==
    /\ reqs[r].op = "createTutor"
    /\ LET st == CreateTutorTx(DB, reqs[r].args) IN
       /\ st.ok => st.d.nextId <= MaxId + 1
       /\ SetDB(Transaction(DB, st))
       /\ IF st.ok THEN Audit("CREATE_TUTOR", st.id) ELSE UNCHANGED auditLog
       /\ Respond("createTutor", reqs[r].args, IF st.ok THEN 201 ELSE 500,
                  [NoOut EXCEPT !.id = IF st.ok THEN st.id ELSE NULL])
       /\ reqs' = [reqs EXCEPT ![r] = Idle]
       /\ UNCHANGED gate

\* the early returns of updateTutor: 404, 409 (another tutor has the new email)
UpdateTutorCheck(d, args) ==
    IF ~\E t \in d.tutors : t.id = args.tutorId THEN 404
    ELSE LET existing == CHOOSE t \in d.tutors : t.id = args.tutorId IN
         IF /\ args.email # Undefined
            /\ args.email # existing.email
            /\ \E t \in d.tutors : t.email = args.email
         THEN 409
         ELSE 0

\* updateTutor without the write to the linked user
UpdateTutorTxTutorOnly(d, args) ==
    IF ~\E t \in d.tutors : t.id = args.tutorId THEN Throw(Start(d), "P2025")
    ELSE LET old == CHOOSE t \in d.tutors : t.id = args.tutorId
             new == [old EXCEPT !.name = Patch(@, args.name),
                                !.email = Patch(@, args.email),
                                !.phone = Patch(@, args.phone)]
         IN IF \E t \in d.tutors : t.id # old.id /\ t.email = new.email
            THEN Throw(Start(d), "P2002")
            ELSE [Start([d EXCEPT !.tutors = (@ \ {old}) \cup {new}]) EXCEPT !.id = args.tutorId]

\* tx.tutor.update (P2025 when the row is gone, P2002 on Tutor_email_key), then
\* tx.user.updateMany on the linked user (P2002 on User_email_key)
UpdateTutorTx(d, args) ==
    IF ~\E t \in d.tutors : t.id = args.tutorId THEN Throw(Start(d), "P2025")
    ELSE LET old == CHOOSE t \in d.tutors : t.id = args.tutorId
             new == [old EXCEPT !.name = Patch(@, args.name),
                                !.email = Patch(@, args.email),
                                !.phone = Patch(@, args.phone),
                                !.isActive = IF args.isActive = Undefined THEN @
                                             ELSE args.isActive = "true"]
             d1 == [d EXCEPT !.tutors = (@ \ {old}) \cup {new}]
             linked == {u \in d.users : u.tutorId = args.tutorId}
             d2 == [d1 EXCEPT !.users = {IF u \in linked
                                         THEN [u EXCEPT !.name = Patch(@, args.name),
                                                        !.email = Patch(@, args.email),
                                                        !.phone = Patch(@, args.phone)]
                                         ELSE u : u \in d.users}]
         IN IF \E t \in d.tutors : t.id # old.id /\ t.email = new.email
            THEN Throw(Start(d), "P2002")
            ELSE IF /\ args.email # Undefined
                    /\ linked # {}
                    /\ \E u \in d.users \ linked : u.email = args.email
            THEN Throw([Start(d) EXCEPT !.d = d1], "P2002")
            ELSE [Start(d2) EXCEPT !.id = args.tutorId]

UpdateTutorBegin(r, args) ==
    /\ reqs[r] = Idle
    /\ LET g == AdminGuard(args)
           c == UpdateTutorCheck(DB, args) IN
       IF g # 0 THEN Reject("updateTutor", args, g)
       ELSE IF c # 0 THEN Reject("updateTutor", args, c)
       ELSE Proceed(r, "updateTutor", args, NULL)

UpdateTutorCommit(r) ==
    /\ reqs[r].op = "updateTutor"
    /\ LET st == UpdateTutorTx(DB, reqs[r].args) IN
       /\ SetDB(Transaction(DB, st))
       /\ IF st.ok THEN Audit("UPDATE_TUTOR", st.id) ELSE UNCHANGED auditLog
       /\ Respond("updateTutor", reqs[r].args, IF st.ok THEN 200 ELSE 500, NoOut)
       /\ reqs' = [reqs EXCEPT ![r] = Idle]
       /\ UNCHANGED gate

\* the early returns of resetTutorPassword: 404 (tutor), 404 (no user of the tutor)
ResetTutorPasswordCheck(d, args) ==
    IF ~\E t \in d.tutors : t.id = args.tutorId THEN 404
    ELSE IF ~\E u \in d.users : u.tutorId = args.tutorId THEN 404
    ELSE 0

ResetTutorPasswordBegin(r, args) ==
    /\ reqs[r] = Idle
    /\ LET g == AdminGuard(args)
           c == ResetTutorPasswordCheck(DB, args) IN
       IF g # 0 THEN Reject("resetTutorPassword", args, g)
       ELSE IF c # 0 THEN Reject("resetTutorPassword", args, c)
       ELSE Proceed(r, "resetTutorPassword", args,
                    (CHOOSE u \in users : u.tutorId = args.tutorId).id)

\* prisma.user.update({where: {id: user.id}}) with the hash of a fresh temporary
\* password: P2025 when the user is gone
ResetTutorPasswordCommit(r) ==
    /\ reqs[r].op = "resetTutorPassword"
    /\ LET found == \E u \in users : u.id = reqs[r].snap IN
       /\ \E pw \in Passwords :
             users' = {IF u.id = reqs[r].snap THEN [u EXCEPT !.password = pw] ELSE u :
                          u \in users}
       /\ IF found THEN Audit("RESET_TUTOR_PASSWORD", reqs[r].args.tutorId)
          ELSE UNCHANGED auditLog
       /\ Respond("resetTutorPassword", reqs[r].args, IF found THEN 200 ELSE 500, NoOut)
       /\ reqs' = [reqs EXCEPT ![r] = Idle]
       /\ UNCHANGED <<schools, tutors, grades, sections, subjects, assignments, nextId, gate>>

\* Tutor.delete with the foreign keys of the schema: User_tutorId_fkey and
\* TutorSubjectAssignment_tutorId_fkey ON DELETE CASCADE, Section_classTutorId_fkey
\* ON DELETE SET NULL
DeleteTutorRowKeepDependents(d, tutorId) ==
    [d EXCEPT !.tutors = {t \in @ : t.id # tutorId}]

DeleteTutorRow(d, tutorId) ==
    [d EXCEPT !.tutors = {t \in @ : t.id # tutorId},
              !.users = {u \in @ : u.tutorId # tutorId},
              !.assignments = {a \in @ : a.tutorId # tutorId},
              !.sections = {IF s.classTutorId = tutorId
                            THEN [s EXCEPT !.classTutorId = NULL] ELSE s : s \in @}]

\* _count of the tutor's subjectAssignments (active or not) and classSections
TutorCounts(d, tutorId) ==
    [subjectAssignments |-> Cardinality({a \in d.assignments : a.tutorId = tutorId}),
     classSections |-> Cardinality({s \in d.sections : s.classTutorId = tutorId})]

\* the early returns of deleteTutor: 404, 400 (has assignments and no force=true)
DeleteTutorCheck(d, args) ==
    IF ~\E t \in d.tutors : t.id = args.tutorId THEN 404
    ELSE LET n == TutorCounts(d, args.tutorId) IN
         IF (n.subjectAssignments > 0 \/ n.classSections > 0) /\ args.force # "true"
         THEN 400
         ELSE 0

DeleteTutorBegin(r, args) ==
    /\ reqs[r] = Idle
    /\ LET g == AdminGuard(args)
           c == DeleteTutorCheck(DB, args) IN
       IF g # 0 THEN Reject("deleteTutor", args, g)
       ELSE IF c # 0 THEN Reject("deleteTutor", args, c)
       ELSE Proceed(r, "deleteTutor", args, NULL)

\* prisma.tutor.delete throws P2025 when the row is gone
DeleteTutorCommit(r) ==
    /\ reqs[r].op = "deleteTutor"
    /\ LET id == reqs[r].args.tutorId
           found == \E t \in tutors : t.id = id IN
       /\ SetDB(IF found THEN DeleteTutorRow(DB, id) ELSE DB)
       /\ IF found THEN Audit("DELETE_TUTOR", id) ELSE UNCHANGED auditLog
       /\ Respond("deleteTutor", reqs[r].args, IF found THEN 200 ELSE 500, NoOut)
       /\ reqs' = [reqs EXCEPT ![r] = Idle]
       /\ UNCHANGED gate

(***************************************************************************)
(* Grade / Section / SectionSubject hierarchy                              *)
(***************************************************************************)
\* Grade.create: unique Grade_schoolId_name_key, foreign key Grade_schoolId_fkey
InsertGrade(st, name, schoolId, order) ==
    IF ~st.ok THEN st
    ELSE IF \E g \in st.d.grades : g.schoolId = schoolId /\ g.name = name
         THEN Throw(st, "P2002")
    ELSE IF ~\E s \in st.d.schools : s.id = schoolId THEN Throw(st, "P2003")
    ELSE Created(st, "grades", [id |-> Fresh(st.d), name |-> name, schoolId |-> schoolId,
                                order |-> order, isActive |-> TRUE])

\* Section.create: unique Section_gradeId_name_key, foreign key Section_gradeId_fkey
InsertSection(st, name, gradeId) ==
    IF ~st.ok THEN st
    ELSE IF \E s \in st.d.sections : s.gradeId = gradeId /\ s.name = name
         THEN Throw(st, "P2002")
    ELSE IF ~\E g \in st.d.grades : g.id = gradeId THEN Throw(st, "P2003")
    ELSE Created(st, "sections", [id |-> Fresh(st.d), name |-> name, gradeId |-> gradeId,
                                  classTutorId |-> NULL, isActive |-> TRUE])

\* SectionSubject.create: unique SectionSubject_sectionId_name_key, foreign key
\* SectionSubject_sectionId_fkey
InsertSubject(st, name, sectionId) ==
    IF ~st.ok THEN st
    ELSE IF \E s \in st.d.subjects : s.sectionId = sectionId /\ s.name = name
         THEN Throw(st, "P2002")
    ELSE IF ~\E s \in st.d.sections : s.id = sectionId THEN Throw(st, "P2003")
    ELSE Created(st, "subjects", [id |-> Fresh(st.d), name |-> name,
                                  sectionId |-> sectionId, isActive |-> TRUE])

\* the inner loop of createGrade: one SectionSubject per name, in order
RECURSIVE CreateSubjects(_, _, _)
CreateSubjects(st, sectionId, names) ==
    IF names = <<>> \/ ~st.ok THEN st
    ELSE CreateSubjects(InsertSubject(st, Head(names), sectionId), sectionId, Tail(names))

\* the outer loop of createGrade: each section, then its subjects
RECURSIVE CreateSections(_, _, _)
CreateSections(st, gradeId, secs) ==
    IF secs = <<>> \/ ~st.ok THEN st
    ELSE LET s1 == InsertSection(st, Head(secs).name, gradeId)
             s2 == CreateSubjects(s1, s1.id, Head(secs).subjects)
         IN CreateSections(s2, gradeId, Tail(secs))

\* the early returns of createGrade: 400, 409 (grade name taken in the school)
CreateGradeCheck(d, args) ==
    IF args.gradeName = <<>> \/ args.sections = <<>> THEN 400
    ELSE IF \E g \in d.grades : g.schoolId = args.schoolId /\ g.name = args.gradeName THEN 409
    ELSE 0

\* order ?? count + 1, read before the transaction (order is <<>> when left out)
GradeOrder(d, args) ==
    IF args.order # <<>> THEN args.order[1]
    ELSE Cardinality({g \in d.grades : g.schoolId = args.schoolId}) + 1

CreateGradeTx(d, args, gradeOrder) ==
    LET s1 == InsertGrade(Start(d), args.gradeName, args.schoolId, gradeOrder)
        s2 == CreateSections(s1, s1.id, args.sections)
    IN [s2 EXCEPT !.id = s1.id]

CreateGradeBegin(r, args) ==
    /\ reqs[r] = Idle
    /\ LET g == AdminGuard(args)
           c == CreateGradeCheck(DB, args) IN
       IF g # 0 THEN Reject("createGrade", args, g)
       ELSE IF c # 0 THEN Reject("createGrade", args, c)
       ELSE Proceed(r, "createGrade", args, GradeOrder(DB, args))

CreateGradeCommit(r) ==
    /\ reqs[r].op = "createGrade"
    /\ LET st == CreateGradeTx(DB, reqs[r].args, reqs[r].snap) IN
       /\ st.ok => st.d.nextId <= MaxId + 1
       /\ SetDB(Transaction(DB, st))
       /\ IF st.ok THEN Audit("CREATE_GRADE", st.id) ELSE UNCHANGED auditLog
       /\ Respond("createGrade", reqs[r].args, IF st.ok THEN 201 ELSE 500,
                  [NoOut EXCEPT !.id = IF st.ok THEN st.id ELSE NULL])
       /\ reqs' = [reqs EXCEPT ![r] = Idle]
       /\ UNCHANGED gate

\* Grade.delete with the foreign keys of the schema: Section, SectionSubject and
\* TutorSubjectAssignment go with it (ON DELETE CASCADE)
DeleteGradeRow(d, gradeId) ==
    LET cs == {c.id : c \in {c \in d.sections : c.gradeId = gradeId}}
        xs == {x.id : x \in {x \in d.subjects : x.sectionId \in cs}}
    IN [d EXCEPT !.grades = {g \in @ : g.id # gradeId},
                 !.sections = {c \in @ : c.id \notin cs},
                 !.subjects = {x \in @ : x.id \notin xs},
                 !.assignments = {a \in @ : a.sectionSubjectId \notin xs}]

\* the early return of deleteGrade: 404
DeleteGradeCheck(d, args) ==
    IF ~\E g \in d.grades : g.id = args.gradeId THEN 404 ELSE 0

DeleteGradeBegin(r, args) ==
    /\ reqs[r] = Idle
    /\ LET g == AdminGuard(args)
           c == DeleteGradeCheck(DB, args) IN
       IF g # 0 THEN Reject("deleteGrade", args, g)
       ELSE IF c # 0 THEN Reject("deleteGrade", args, c)
       ELSE Proceed(r, "deleteGrade", args, NULL)

\* prisma.grade.delete throws P2025 when the row is gone
DeleteGradeCommit(r) ==
    /\ reqs[r].op = "deleteGrade"
    /\ LET id == reqs[r].args.gradeId
           found == \E g \in grades : g.id = id IN
       /\ SetDB(IF found THEN DeleteGradeRow(DB, id) ELSE DB)
       /\ IF found THEN Audit("DELETE_GRADE", id) ELSE UNCHANGED auditLog
       /\ Respond("deleteGrade", reqs[r].args, IF found THEN 200 ELSE 500, NoOut)
       /\ reqs' = [reqs EXCEPT ![r] = Idle]
       /\ UNCHANGED gate

\* tx.sectionSubject.update({where: {id}}): P2025 when the row is gone
SetSubjectActive(st, id, active) ==
    IF ~st.ok THEN st
    ELSE IF ~\E s \in st.d.subjects : s.id = id THEN Throw(st, "P2025")
    ELSE [st EXCEPT !.id = id,
                    !.d.subjects = {IF s.id = id THEN [s EXCEPT !.isActive = active] ELSE s
                                    : s \in @}]

\* the first loop of updateSectionSubjects: a name to add reactivates the inactive
\* row of that name when there is one, and creates a row otherwise
RECURSIVE AddSubjects(_, _, _)
AddSubjects(st, sectionId, toAdd) ==
    IF toAdd = <<>> \/ ~st.ok THEN st
    ELSE LET name == Head(toAdd)
             inactive == {s \in st.d.subjects :
                            s.sectionId = sectionId /\ s.name = name /\ ~s.isActive}
             s1 == IF inactive # {}
                   THEN SetSubjectActive(st, (CHOOSE s \in inactive : TRUE).id, TRUE)
                   ELSE InsertSubject(st, name, sectionId)
         IN AddSubjects(s1, sectionId, Tail(toAdd))

\* the second loop: every subject read as current and not named is deactivated
RECURSIVE DeactivateSubjects(_, _)
DeactivateSubjects(st, ids) ==
    IF ids = {} \/ ~st.ok THEN st
    ELSE LET id == CHOOSE x \in ids : TRUE
         IN DeactivateSubjects(SetSubjectActive(st, id, FALSE), ids \ {id})

Range(seq) == {seq[i] : i \in 1..Len(seq)}

\* Array.prototype.filter: the elements that satisfy Keep, in order
RECURSIVE Filter(_, _)
Filter(seq, keep) ==
    IF seq = <<>> THEN <<>>
    ELSE IF Head(seq) \in keep THEN <<Head(seq)>> \o Filter(Tail(seq), keep)
    ELSE Filter(Tail(seq), keep)

\* the early return of updateSectionSubjects: 404 (400 needs a body without an array)
UpdateSectionSubjectsCheck(d, args) ==
    IF ~\E s \in d.sections : s.id = args.sectionId THEN 404 ELSE 0

\* section.subjects where isActive, read before the transaction
CurrentSubjects(d, sectionId) ==
    {s \in d.subjects : s.sectionId = sectionId /\ s.isActive}

UpdateSectionSubjectsTx(d, args, current) ==
    LET currentNames == {s.name : s \in current}
        newNames == args.subjects
        toAdd == Filter(newNames, Range(newNames) \ currentNames)
        toDeactivate == {s.id : s \in {c \in current : c.name \notin Range(newNames)}}
        s1 == AddSubjects(Start(d), args.sectionId, toAdd)
    IN DeactivateSubjects(s1, toDeactivate)

UpdateSectionSubjectsBegin(r, args) ==
    /\ reqs[r] = Idle
    /\ LET g == AdminGuard(args)
           c == UpdateSectionSubjectsCheck(DB, args) IN
       IF g # 0 THEN Reject("updateSectionSubjects", args, g)
       ELSE IF c # 0 THEN Reject("updateSectionSubjects", args, c)
       ELSE Proceed(r, "updateSectionSubjects", args, CurrentSubjects(DB, args.sectionId))

\* after the transaction the section is read again; updatedSection!.id throws when it is gone
UpdateSectionSubjectsCommit(r) ==
    /\ reqs[r].op = "updateSectionSubjects"
    /\ LET st == UpdateSectionSubjectsTx(DB, reqs[r].args, reqs[r].snap)
           d2 == Transaction(DB, st)
           done == st.ok /\ \E s \in d2.sections : s.id = reqs[r].args.sectionId IN
       /\ st.ok => st.d.nextId <= MaxId + 1
       /\ SetDB(d2)
       /\ IF done THEN Audit("UPDATE_SECTION_SUBJECTS", reqs[r].args.sectionId)
          ELSE UNCHANGED auditLog
       /\ Respond("updateSectionSubjects", reqs[r].args, IF done THEN 200 ELSE 500, NoOut)
       /\ reqs' = [reqs EXCEPT ![r] = Idle]
       /\ UNCHANGED gate

(***************************************************************************)
(* updateGrade (the comprehensive handler of the grade controller)         *)
(***************************************************************************)
\* an optional field of the body that is not a string: <<>> when left out, <<v>> when given
Given(old, opt) == IF opt = <<>> THEN old ELSE opt[1]

\* tx.grade.update: P2025 when the row is gone, unique Grade_schoolId_name_key
UpdateGradeRow(st, gradeId, name, order, isActive) ==
    IF ~st.ok THEN st
    ELSE IF ~\E g \in st.d.grades : g.id = gradeId THEN Throw(st, "P2025")
    ELSE LET old == CHOOSE g \in st.d.grades : g.id = gradeId
             new == [old EXCEPT !.name = Given(@, name), !.order = Given(@, order),
                                !.isActive = Given(@, isActive)]
         IN IF \E g \in st.d.grades : g.id # gradeId /\ g.schoolId = new.schoolId
                                      /\ g.name = new.name
            THEN Throw(st, "P2002")
            ELSE [st EXCEPT !.id = gradeId, !.d.grades = (@ \ {old}) \cup {new}]

\* tx.section.deleteMany({id in ids, gradeId}) with the cascades of the schema
DeleteSections(st, ids, gradeId) ==
    IF ~st.ok THEN st
    ELSE LET cs == {c.id : c \in {c \in st.d.sections : c.id \in ids /\ c.gradeId = gradeId}}
             xs == {x.id : x \in {x \in st.d.subjects : x.sectionId \in cs}}
         IN [st EXCEPT !.d.sections = {c \in @ : c.id \notin cs},
                       !.d.subjects = {x \in @ : x.id \notin xs},
                       !.d.assignments = {a \in @ : a.sectionSubjectId \notin xs}]

\* tx.section.update({where: {id}, data: {name}}): P2025 when the row is gone, unique
\* Section_gradeId_name_key; a name left out changes nothing
UpdateSectionName(st, id, name) ==
    IF ~st.ok THEN st
    ELSE IF ~\E c \in st.d.sections : c.id = id THEN Throw(st, "P2025")
    ELSE LET old == CHOOSE c \in st.d.sections : c.id = id
             new == [old EXCEPT !.name = Given(@, name)]
         IN IF \E c \in st.d.sections : c.id # id /\ c.gradeId = new.gradeId
                                        /\ c.name = new.name
            THEN Throw(st, "P2002")
            ELSE [st EXCEPT !.id = id, !.d.sections = (@ \ {old}) \cup {new}]

\* the subjects of an updated section: currentSubjects is every SectionSubject of the
\* section, active or not; a listed name that is not among them is created, and every
\* current one that is not listed is deactivated
ReconcileSubjects(st, sectionId, names) ==
    IF ~st.ok THEN st
    ELSE LET currentSubjects == {x \in st.d.subjects : x.sectionId = sectionId}
             currentNames == {x.name : x \in currentSubjects}
             toCreate == Filter(names, Range(names) \ currentNames)
             removed == {x.id : x \in {c \in currentSubjects : c.name \notin Range(names)}}
             s1 == CreateSubjects(st, sectionId, toCreate)
         IN DeactivateSubjects(s1, removed)

\* step 3 of the transaction: each entry with an id updates that section (and its
\* subjects when it carries a list), each entry without one creates a section
RECURSIVE UpdateSections(_, _, _)
UpdateSections(st, gradeId, secs) ==
    IF secs = <<>> \/ ~st.ok THEN st
    ELSE LET sd == Head(secs)
             s1 == IF sd.id # NULL
                   THEN LET u == UpdateSectionName(st, sd.id, sd.name)
                        IN IF sd.subjects # <<>>
                           THEN ReconcileSubjects(u, sd.id, sd.subjects[1])
                           ELSE u
                   ELSE LET c == InsertSection(st, sd.name[1], gradeId)
                        IN IF sd.subjects # <<>>
                           THEN CreateSubjects(c, c.id, sd.subjects[1])
                           ELSE c
         IN UpdateSections(s1, gradeId, Tail(secs))

\* the early return of updateGrade: 404
UpdateGradeCheck(d, args) ==
    IF ~\E g \in d.grades : g.id = args.gradeId THEN 404 ELSE 0

UpdateGradeTx(d, args) ==
    LET s1 == UpdateGradeRow(Start(d), args.gradeId, args.name, args.order, args.isActive)
        s2 == DeleteSections(s1, args.deleteSectionIds, args.gradeId)
    IN UpdateSections(s2, args.gradeId, args.sections)

UpdateGradeBegin(r, args) ==
    /\ reqs[r] = Idle
    /\ LET g == AdminGuard(args)
           c == UpdateGradeCheck(DB, args) IN
       IF g # 0 THEN Reject("updateGrade", args, g)
       ELSE IF c # 0 THEN Reject("updateGrade", args, c)
       ELSE Proceed(r, "updateGrade", args, NULL)

\* the grade is read again after the transaction and sent as it is; no audit entry
UpdateGradeCommit(r) ==
    /\ reqs[r].op = "updateGrade"
    /\ LET st == UpdateGradeTx(DB, reqs[r].args) IN
       /\ st.ok => st.d.nextId <= MaxId + 1
       /\ SetDB(Transaction(DB, st))
       /\ Respond("updateGrade", reqs[r].args, IF st.ok THEN 200 ELSE 500, NoOut)
       /\ reqs' = [reqs EXCEPT ![r] = Idle]
       /\ UNCHANGED <<auditLog, gate>>

(***************************************************************************)
(* Assignments                                                             *)
(***************************************************************************)
Upper == {"A", "B", "C", "D", "E", "F", "G", "H", "I", "J", "K", "L", "M",
          "N", "O", "P", "Q", "R", "S", "T", "U", "V", "W", "X", "Y", "Z"}

\* the characters "." does not match
LineTerminators == {"\n", "\r"}

\* a match whose first group runs up to and including the "-"
ParseKeyWithDash(key) ==
    LET n == Len(key) IN
    IF n >= 3 /\ key[n] \in Upper /\ key[n - 1] = "-"
    THEN [ok |-> TRUE, gradeName |-> SubSeq(key, 1, n - 1), sectionName |-> <<key[n]>>]
    ELSE [ok |-> FALSE, gradeName |-> <<>>, sectionName |-> <<>>]

\* a match whose first group takes no "-"
ParseKeyNoDashInGrade(key) ==
    LET n == Len(key) IN
    IF /\ n >= 3
       /\ key[n] \in Upper
       /\ key[n - 1] = "-"
       /\ \A i \in 1..(n - 2) : key[i] \notin LineTerminators \cup {"-"}
    THEN [ok |-> TRUE, gradeName |-> SubSeq(key, 1, n - 2), sectionName |-> <<key[n]>>]
    ELSE [ok |-> FALSE, gradeName |-> <<>>, sectionName |-> <<>>]

\* key.match(/^(.+)-([A-Z])$/) on a key given as its sequence of characters: the
\* last character is the section, the one before it "-", the rest (not empty, no
\* line terminator) the grade
ParseKey(key) ==
    LET n == Len(key) IN
    IF /\ n >= 3
       /\ key[n] \in Upper
       /\ key[n - 1] = "-"
       /\ \A i \in 1..(n - 2) : key[i] \notin LineTerminators
    THEN [ok |-> TRUE, gradeName |-> SubSeq(key, 1, n - 2), sectionName |-> <<key[n]>>]
    ELSE [ok |-> FALSE, gradeName |-> <<>>, sectionName |-> <<>>]

\* TutorSubjectAssignment.create that leaves the new row inactive
InsertAssignmentInactive(st, tutorId, subjectId) ==
    IF ~st.ok THEN st
    ELSE IF \E a \in st.d.assignments : a.tutorId = tutorId /\ a.sectionSubjectId = subjectId
         THEN Throw(st, "P2002")
    ELSE Created(st, "assignments", [id |-> Fresh(st.d), tutorId |-> tutorId,
                                     sectionSubjectId |-> subjectId, isActive |-> FALSE])

\* TutorSubjectAssignment.create without its unique index
InsertAssignmentNoUnique(st, tutorId, subjectId) ==
    IF ~st.ok THEN st
    ELSE IF \/ ~\E t \in st.d.tutors : t.id = tutorId
            \/ ~\E s \in st.d.subjects : s.id = subjectId
         THEN Throw(st, "P2003")
    ELSE Created(st, "assignments", [id |-> Fresh(st.d), tutorId |-> tutorId,
                                     sectionSubjectId |-> subjectId, isActive |-> TRUE])

\* TutorSubjectAssignment.create: unique (tutorId, sectionSubjectId), both foreign keys
InsertAssignment(st, tutorId, subjectId) ==
    IF ~st.ok THEN st
    ELSE IF \E a \in st.d.assignments : a.tutorId = tutorId /\ a.sectionSubjectId = subjectId
         THEN Throw(st, "P2002")
    ELSE IF \/ ~\E t \in st.d.tutors : t.id = tutorId
            \/ ~\E s \in st.d.subjects : s.id = subjectId
         THEN Throw(st, "P2003")
    ELSE Created(st, "assignments", [id |-> Fresh(st.d), tutorId |-> tutorId,
                                     sectionSubjectId |-> subjectId, isActive |-> TRUE])

\* The transaction of smartAssignTutor carries the statement state st and the
\* three result lists.
StartAssign(d) == [st |-> Start(d), created |-> <<>>, skipped |-> <<>>, errors |-> <<>>,
                   classTutor |-> NULL]

Item(gradeName, sectionName, subjectName) ==
    [grade |-> gradeName, section |-> sectionName, subject |-> subjectName]

\* one subject name under a resolved section: find or create the active
\* SectionSubject, then skip, reactivate or create the assignment
AssignSubject(acc, tutorId, sectionId, gradeName, sectionName, subjectName) ==
    IF ~acc.st.ok THEN acc
    ELSE
    LET found == {s \in acc.st.d.subjects :
                    s.sectionId = sectionId /\ s.name = subjectName /\ s.isActive}
        s1 == IF found # {} THEN [acc.st EXCEPT !.id = (CHOOSE s \in found : TRUE).id]
              ELSE InsertSubject(acc.st, subjectName, sectionId)
        existing == {a \in s1.d.assignments :
                       a.tutorId = tutorId /\ a.sectionSubjectId = s1.id}
        item == Item(gradeName, sectionName, subjectName)
    IN IF ~s1.ok THEN [acc EXCEPT !.st = s1]
       ELSE IF existing # {}
       THEN LET e == CHOOSE a \in existing : TRUE IN
            IF e.isActive
            THEN [acc EXCEPT !.st = s1, !.skipped = Append(@, item)]
            ELSE [acc EXCEPT
                    !.st = [s1 EXCEPT !.d.assignments =
                               (@ \ {e}) \cup {[e EXCEPT !.isActive = TRUE]}],
                    !.created = Append(@, item)]
       ELSE LET s2 == InsertAssignment(s1, tutorId, s1.id) IN
            IF s2.ok THEN [acc EXCEPT !.st = s2, !.created = Append(@, item)]
            ELSE [acc EXCEPT !.st = s2]

RECURSIVE AssignSubjects(_, _, _, _, _, _)
AssignSubjects(acc, tutorId, sectionId, gradeName, sectionName, names) ==
    IF names = <<>> \/ ~acc.st.ok THEN acc
    ELSE AssignSubjects(
             AssignSubject(acc, tutorId, sectionId, gradeName, sectionName, Head(names)),
             tutorId, sectionId, gradeName, sectionName, Tail(names))

ActiveGrade(d, schoolId, name) ==
    {g \in d.grades : g.schoolId = schoolId /\ g.name = name /\ g.isActive}

ActiveSection(d, gradeId, name) ==
    {s \in d.sections : s.gradeId = gradeId /\ s.name = name /\ s.isActive}

\* one entry of the assignments map: parse the key, resolve grade and section
\* (an error and on to the next key when one fails), then the subjects
AssignKey(acc, schoolId, tutorId, entry) ==
    IF ~acc.st.ok THEN acc
    ELSE
    LET m == ParseKey(entry.key)
        gs == ActiveGrade(acc.st.d, schoolId, m.gradeName)
        grade == CHOOSE g \in gs : TRUE
        ss == ActiveSection(acc.st.d, grade.id, m.sectionName)
        section == CHOOSE x \in ss : TRUE
    IN IF ~m.ok THEN [acc EXCEPT !.errors = Append(@, [kind |-> "key", key |-> entry.key])]
       ELSE IF gs = {}
       THEN [acc EXCEPT !.errors = Append(@, [kind |-> "grade", key |-> entry.key])]
       ELSE IF ss = {}
       THEN [acc EXCEPT !.errors = Append(@, [kind |-> "section", key |-> entry.key])]
       ELSE AssignSubjects(acc, tutorId, section.id, m.gradeName, m.sectionName,
                           entry.subjects)

\* the loop over the keys that stops at the first key that recorded an error
RECURSIVE AssignKeysStopAtError(_, _, _, _)
AssignKeysStopAtError(acc, schoolId, tutorId, entries) ==
    IF entries = <<>> \/ ~acc.st.ok \/ acc.errors # <<>> THEN acc
    ELSE AssignKeysStopAtError(AssignKey(acc, schoolId, tutorId, Head(entries)),
                               schoolId, tutorId, Tail(entries))

\* Object.entries(assignments): the map is the sequence of its entries
RECURSIVE AssignKeys(_, _, _, _)
AssignKeys(acc, schoolId, tutorId, entries) ==
    IF entries = <<>> \/ ~acc.st.ok THEN acc
    ELSE AssignKeys(AssignKey(acc, schoolId, tutorId, Head(entries)),
                    schoolId, tutorId, Tail(entries))

\* step 2 without the look at the section's present class tutor
AssignClassPartNoCheck(acc, schoolId, tutorId, classGrade, classSection) ==
    IF ~acc.st.ok \/ classGrade = <<>> \/ classSection = <<>> THEN acc
    ELSE
    LET gs == ActiveGrade(acc.st.d, schoolId, classGrade)
        ss == ActiveSection(acc.st.d, (CHOOSE g \in gs : TRUE).id, classSection)
        section == CHOOSE x \in ss : TRUE
        key == classGrade \o <<"-">> \o classSection
    IN IF gs = {}
       THEN [acc EXCEPT !.errors = Append(@, [kind |-> "classGrade", key |-> key])]
       ELSE IF ss = {}
       THEN [acc EXCEPT !.errors = Append(@, [kind |-> "classSection", key |-> key])]
       ELSE [acc EXCEPT
                !.st.d.sections = (@ \ {section})
                                  \cup {[section EXCEPT !.classTutorId = tutorId]},
                !.classTutor = section.id]

\* step 2 of the transaction: the class tutor of (classGrade, classSection)
AssignClassPart(acc, schoolId, tutorId, classGrade, classSection) ==
    IF ~acc.st.ok \/ classGrade = <<>> \/ classSection = <<>> THEN acc
    ELSE
    LET gs == ActiveGrade(acc.st.d, schoolId, classGrade)
        ss == ActiveSection(acc.st.d, (CHOOSE g \in gs : TRUE).id, classSection)
        section == CHOOSE x \in ss : TRUE
        key == classGrade \o <<"-">> \o classSection
    IN IF gs = {}
       THEN [acc EXCEPT !.errors = Append(@, [kind |-> "classGrade", key |-> key])]
       ELSE IF ss = {}
       THEN [acc EXCEPT !.errors = Append(@, [kind |-> "classSection", key |-> key])]
       ELSE IF section.classTutorId # NULL /\ section.classTutorId # tutorId
       THEN [acc EXCEPT !.errors = Append(@, [kind |-> "classTutor", key |-> key])]
       ELSE IF ~\E t \in acc.st.d.tutors : t.id = tutorId
       THEN [acc EXCEPT !.st = Throw(@, "P2003")]
       ELSE [acc EXCEPT
                !.st.d.sections = (@ \ {section})
                                  \cup {[section EXCEPT !.classTutorId = tutorId]},
                !.classTutor = section.id]

\* the early returns of smartAssignTutor: 400, 404 (no such tutor in the school)
SmartAssignCheck(d, args) ==
    IF args.tutorId = NULL THEN 400
    ELSE IF ~\E t \in d.tutors : t.id = args.tutorId /\ t.schoolId = args.schoolId THEN 404
    ELSE 0

SmartAssignTx(d, args) ==
    AssignClassPart(AssignKeys(StartAssign(d), args.schoolId, args.tutorId, args.assignments),
                    args.schoolId, args.tutorId, args.classGrade, args.classSection)

SmartAssignBegin(r, args) ==
    /\ reqs[r] = Idle
    /\ LET g == AdminGuard(args)
           c == SmartAssignCheck(DB, args) IN
       IF g # 0 THEN Reject("smartAssignTutor", args, g)
       ELSE IF c # 0 THEN Reject("smartAssignTutor", args, c)
       ELSE Proceed(r, "smartAssignTutor", args, NULL)

\* 201 with the result lists; a throw is 409 for P2002 and 500 otherwise
SmartAssignCommit(r) ==
    /\ reqs[r].op = "smartAssignTutor"
    /\ LET acc == SmartAssignTx(DB, reqs[r].args) IN
       /\ acc.st.ok => acc.st.d.nextId <= MaxId + 1
       /\ SetDB(Transaction(DB, acc.st))
       /\ IF acc.st.ok THEN Audit("ASSIGN_TUTOR", reqs[r].args.tutorId)
          ELSE UNCHANGED auditLog
       /\ Respond("smartAssignTutor", reqs[r].args,
                  IF acc.st.ok THEN 201 ELSE IF acc.st.err = "P2002" THEN 409 ELSE 500,
                  IF acc.st.ok
                  THEN [id |-> NULL, created |-> acc.created, skipped |-> acc.skipped,
                        errors |-> acc.errors, classTutor |-> acc.classTutor]
                  ELSE NoOut)
       /\ reqs' = [reqs EXCEPT ![r] = Idle]
       /\ UNCHANGED gate

\* the early returns of assignClassTutor: 400, 404 (section), 404 (tutor)
AssignClassTutorCheck(d, args) ==
    IF args.tutorId = NULL THEN 400
    ELSE IF ~\E s \in d.sections : s.id = args.sectionId THEN 404
    ELSE IF ~\E t \in d.tutors : t.id = args.tutorId THEN 404
    ELSE 0

AssignClassTutorBegin(r, args) ==
    /\ reqs[r] = Idle
    /\ LET g == AdminGuard(args)
           c == AssignClassTutorCheck(DB, args) IN
       IF g # 0 THEN Reject("assignClassTutor", args, g)
       ELSE IF c # 0 THEN Reject("assignClassTutor", args, c)
       ELSE Proceed(r, "assignClassTutor", args, NULL)

\* prisma.section.update: P2025 when the section is gone, P2003 when the tutor is
AssignClassTutorCommit(r) ==
    /\ reqs[r].op = "assignClassTutor"
    /\ LET a == reqs[r].args
           ok == /\ \E s \in sections : s.id = a.sectionId
                 /\ \E t \in tutors : t.id = a.tutorId IN
       /\ sections' = IF ok
                      THEN {IF s.id = a.sectionId THEN [s EXCEPT !.classTutorId = a.tutorId]
                            ELSE s : s \in sections}
                      ELSE sections
       /\ Respond("assignClassTutor", a, IF ok THEN 200 ELSE 500, NoOut)
       /\ reqs' = [reqs EXCEPT ![r] = Idle]
       /\ UNCHANGED <<schools, users, tutors, grades, subjects, assignments, nextId,
                      auditLog, gate>>

\* assignSubjectToTutor: the early returns 400, 404 (tutor in the school), 404 (subject),
\* 409 (an active assignment of the pair exists)
AssignSubjectToTutorCheck(d, args) ==
    IF args.tutorId = NULL \/ args.sectionSubjectId = NULL THEN 400
    ELSE IF ~\E t \in d.tutors : t.id = args.tutorId /\ t.schoolId = args.schoolId THEN 404
    ELSE IF ~\E x \in d.subjects : x.id = args.sectionSubjectId THEN 404
    ELSE IF \E a \in d.assignments : /\ a.tutorId = args.tutorId
                                     /\ a.sectionSubjectId = args.sectionSubjectId
                                     /\ a.isActive
         THEN 409
    ELSE 0

\* existingAssignment as findFirst returned it: the id of the row of the pair, or NULL
ExistingAssignment(d, args) ==
    LET rows == {a \in d.assignments : /\ a.tutorId = args.tutorId
                                       /\ a.sectionSubjectId = args.sectionSubjectId}
    IN IF rows = {} THEN NULL ELSE (CHOOSE a \in rows : TRUE).id

AssignSubjectToTutorBegin(r, args) ==
    /\ reqs[r] = Idle
    /\ LET g == AdminGuard(args)
           c == AssignSubjectToTutorCheck(DB, args) IN
       IF g # 0 THEN Reject("assignSubjectToTutor", args, g)
       ELSE IF c # 0 THEN Reject("assignSubjectToTutor", args, c)
       ELSE Proceed(r, "assignSubjectToTutor", args, ExistingAssignment(DB, args))

\* tutorSubjectAssignment.update({where: {id}}): P2025 when the row is gone
SetAssignmentActive(st, id) ==
    IF ~st.ok THEN st
    ELSE IF ~\E a \in st.d.assignments : a.id = id THEN Throw(st, "P2025")
    ELSE [st EXCEPT !.id = id,
                    !.d.assignments = {IF a.id = id THEN [a EXCEPT !.isActive = TRUE] ELSE a
                                       : a \in @}]

\* the write: the inactive row that was found is reactivated (200, no audit entry), or
\* a row is created (201); a throw is 409 for P2002, with the message of the catch
\* block ("This tutor is already assigned to this subject"), and 500 otherwise
AssignSubjectToTutorCommit(r) ==
    /\ reqs[r].op = "assignSubjectToTutor"
    /\ LET a == reqs[r].args
           found == reqs[r].snap
           st == IF found # NULL THEN SetAssignmentActive(Start(DB), found)
                 ELSE InsertAssignment(Start(DB), a.tutorId, a.sectionSubjectId) IN
       /\ st.ok => st.d.nextId <= MaxId + 1
       /\ SetDB(Transaction(DB, st))
       /\ IF st.ok /\ found = NULL THEN Audit("ASSIGN_SUBJECT_TO_TUTOR", st.id)
          ELSE UNCHANGED auditLog
       /\ Respond("assignSubjectToTutor", a,
                  IF st.ok THEN (IF found # NULL THEN 200 ELSE 201)
                  ELSE IF st.err = "P2002" THEN 409 ELSE 500,
                  [NoOut EXCEPT !.id = IF st.ok THEN st.id ELSE NULL,
                                !.errors = IF ~st.ok /\ st.err = "P2002"
                                           THEN <<[kind |-> "uniqueAssignment", key |-> <<>>]>>
                                           ELSE <<>>])
       /\ reqs' = [reqs EXCEPT ![r] = Idle]
       /\ UNCHANGED gate

\* removeAssignment: the early return 404
RemoveAssignmentCheck(d, args) ==
    IF ~\E a \in d.assignments : a.id = args.assignmentId THEN 404 ELSE 0

RemoveAssignmentBegin(r, args) ==
    /\ reqs[r] = Idle
    /\ LET g == AdminGuard(args)
           c == RemoveAssignmentCheck(DB, args) IN
       IF g # 0 THEN Reject("removeAssignment", args, g)
       ELSE IF c # 0 THEN Reject("removeAssignment", args, c)
       ELSE Proceed(r, "removeAssignment", args, NULL)

\* tutorSubjectAssignment.delete: P2025 when the row is gone
RemoveAssignmentCommit(r) ==
    /\ reqs[r].op = "removeAssignment"
    /\ LET id == reqs[r].args.assignmentId
           found == \E a \in assignments : a.id = id IN
       /\ assignments' = {a \in assignments : a.id # id}
       /\ Respond("removeAssignment", reqs[r].args, IF found THEN 200 ELSE 500, NoOut)
       /\ reqs' = [reqs EXCEPT ![r] = Idle]
       /\ UNCHANGED <<schools, users, tutors, grades, sections, subjects, nextId, auditLog,
                      gate>>

\* the early return of deleteAllTutorAssignments: 404
DeleteAllTutorAssignmentsCheck(d, args) ==
    IF ~\E t \in d.tutors : t.id = args.tutorId THEN 404 ELSE 0

\* deleteMany / updateMany that leave the rows as they are
KeepTutorAssignments(d, args) == d

\* deleteMany of the tutor's assignments, updateMany of its class sections
DeleteAllTutorAssignmentsTx(d, args) ==
    [d EXCEPT !.assignments = {a \in @ : a.tutorId # args.tutorId},
              !.sections = {IF s.classTutorId = args.tutorId
                            THEN [s EXCEPT !.classTutorId = NULL] ELSE s : s \in @}]

DeleteAllTutorAssignmentsBegin(r, args) ==
    /\ reqs[r] = Idle
    /\ LET g == AdminGuard(args)
           c == DeleteAllTutorAssignmentsCheck(DB, args) IN
       IF g # 0 THEN Reject("deleteAllTutorAssignments", args, g)
       ELSE IF c # 0 THEN Reject("deleteAllTutorAssignments", args, c)
       ELSE Proceed(r, "deleteAllTutorAssignments", args, NULL)

DeleteAllTutorAssignmentsCommit(r) ==
    /\ reqs[r].op = "deleteAllTutorAssignments"
    /\ SetDB(DeleteAllTutorAssignmentsTx(DB, reqs[r].args))
    /\ Audit("DELETE_ALL_TUTOR_ASSIGNMENTS", reqs[r].args.tutorId)
    /\ Respond("deleteAllTutorAssignments", reqs[r].args, 200, NoOut)
    /\ reqs' = [reqs EXCEPT ![r] = Idle]
    /\ UNCHANGED gate

\* updateTutorAssignments, its own part: the early returns 400 and 404, then the
\* transaction that deletes the tutor's assignments and clears its class sections
UpdateTutorAssignmentsBegin(r, args) ==
    /\ reqs[r] = Idle
    /\ LET g == AdminGuard(args)
           c == SmartAssignCheck(DB, args) IN
       IF g # 0 THEN Reject("updateTutorAssignments", args, g)
       ELSE IF c # 0 THEN Reject("updateTutorAssignments", args, c)
       ELSE Proceed(r, "updateTutorAssignments", args, "delete")

UpdateTutorAssignmentsDelete(r) ==
    /\ reqs[r].op = "updateTutorAssignments"
    /\ reqs[r].snap = "delete"
    /\ SetDB(DeleteAllTutorAssignmentsTx(DB, reqs[r].args))
    /\ reqs' = [reqs EXCEPT ![r].snap = "check"]
    /\ UNCHANGED <<auditLog, resp, gate>>

\* then smartAssignTutor(req, res) on the same request: its early returns
UpdateTutorAssignmentsCheck(r) ==
    /\ reqs[r].op = "updateTutorAssignments"
    /\ reqs[r].snap = "check"
    /\ LET c == SmartAssignCheck(DB, reqs[r].args) IN
       IF c # 0
       THEN /\ Respond("updateTutorAssignments", reqs[r].args, c, NoOut)
            /\ reqs' = [reqs EXCEPT ![r] = Idle]
            /\ UNCHANGED <<dbvars, auditLog, gate>>
       ELSE /\ reqs' = [reqs EXCEPT ![r].snap = "assign"]
            /\ UNCHANGED <<dbvars, auditLog, resp, gate>>

\* and its transaction, audit entry and response
UpdateTutorAssignmentsCommit(r) ==
    /\ reqs[r].op = "updateTutorAssignments"
    /\ reqs[r].snap = "assign"
    /\ LET acc == SmartAssignTx(DB, reqs[r].args) IN
       /\ acc.st.ok => acc.st.d.nextId <= MaxId + 1
       /\ SetDB(Transaction(DB, acc.st))
       /\ IF acc.st.ok THEN Audit("ASSIGN_TUTOR", reqs[r].args.tutorId)
          ELSE UNCHANGED auditLog
       /\ Respond("updateTutorAssignments", reqs[r].args,
                  IF acc.st.ok THEN 201 ELSE IF acc.st.err = "P2002" THEN 409 ELSE 500,
                  IF acc.st.ok
                  THEN [id |-> NULL, created |-> acc.created, skipped |-> acc.skipped,
                        errors |-> acc.errors, classTutor |-> acc.classTutor]
                  ELSE NoOut)
       /\ reqs' = [reqs EXCEPT ![r] = Idle]
       /\ UNCHANGED gate

\* listGrades: one entry per active subject of an active section of an active grade
\* of the school, with the tutors of its active assignments.  The response nests
\* and sorts these entries; tutor is tutorAssignments[0], which is the only tutor
\* when there is one and one of them (in the order the store returns) otherwise.
ListGrades(d, schoolId) ==
    {[grade |-> g.name, section |-> s.name, subject |-> x.name, subjectId |-> x.id,
      tutors |-> {a.tutorId : a \in {b \in d.assignments :
                                        b.sectionSubjectId = x.id /\ b.isActive}}] :
        <<g, s, x>> \in {t \in d.grades \X d.sections \X d.subjects :
                            /\ t[1].schoolId = schoolId /\ t[1].isActive
                            /\ t[2].gradeId = t[1].id /\ t[2].isActive
                            /\ t[3].sectionId = t[2].id /\ t[3].isActive}}

\* listAssignmentsGrouped, the assignments of its entries: for every active tutor of
\* the school, the subject names of its active assignments under the key
\* "<grade name>-<section name>" (the subject, section and grade are not filtered)
GroupedSubjects(d, schoolId) ==
    {[tutorId |-> t[1].id, key |-> t[5].name \o <<"-">> \o t[4].name, subject |-> t[3].name] :
        t \in {q \in d.tutors \X d.assignments \X d.subjects \X d.sections \X d.grades :
                  /\ q[1].schoolId = schoolId /\ q[1].isActive
                  /\ q[2].tutorId = q[1].id /\ q[2].isActive
                  /\ q[3].id = q[2].sectionSubjectId
                  /\ q[4].id = q[3].sectionId
                  /\ q[5].id = q[4].gradeId}}

\* tutor.classSections: the active sections the tutor is class tutor of
ClassSections(d, tutorId) == {c \in d.sections : c.classTutorId = tutorId /\ c.isActive}

\* the tutors listAssignmentsGrouped has an entry for
GroupedTutors(d, schoolId) ==
    {t.id : t \in {x \in d.tutors :
                      /\ x.schoolId = schoolId /\ x.isActive
                      /\ \/ \E a \in d.assignments : a.tutorId = x.id /\ a.isActive
                         \/ ClassSections(d, x.id) # {}}}

(***************************************************************************)
(* Initial states                                                          *)
(***************************************************************************)
\* prisma/seed.ts: the store holds the SUPERADMIN user and nothing else
SeedUser == [id |-> "u0", email |-> "superadmin@system.com", name |-> "System Super Admin",
             phone |-> NULL, password |-> TempPassword, role |-> "SUPERADMIN",
             schoolId |-> NULL, tutorId |-> NULL]

NoGate == [user |-> NoUser, allowed |-> {}, urlSchoolId |-> Undefined, status |-> 0,
           nexts |-> 0]

NoResp == [n |-> 0, op |-> "none", args |-> [user |-> NoUser], status |-> 0, out |-> NoOut]

InitRest ==
    /\ nextId = 1
    /\ reqs = [r \in Slots |-> Idle]
    /\ resp = NoResp
    /\ gate = NoGate

InitSeed ==
    /\ schools = {}
    /\ users = {SeedUser}
    /\ tutors = {}
    /\ grades = {}
    /\ sections = {}
    /\ subjects = {}
    /\ assignments = {}
    /\ auditLog = {}
    /\ InitRest

\* names that are parsed out of a key are kept as their sequence of characters
G1 == <<"G", "1">>
SecA == <<"A">>
SecB == <<"B">>
MakeKey(gradeName, sectionName) == gradeName \o <<"-">> \o sectionName

\* rows as createSchool, createTutor and createGrade leave them
School1 == [id |-> "s1", code |-> "LIN01"]
School2 == [id |-> "s2", code |-> "OAK02"]
Admin1 == [id |-> "u1", email |-> "admin@lin", name |-> "Ann", phone |-> "100",
           password |-> TempPassword, role |-> "SCHOOL_ADMIN", schoolId |-> "s1",
           tutorId |-> NULL]
Admin2 == [id |-> "u2", email |-> "admin@oak", name |-> "Bob", phone |-> "100",
           password |-> TempPassword, role |-> "SCHOOL_ADMIN", schoolId |-> "s2",
           tutorId |-> NULL]
TutorRow(id, email, name, schoolId) ==
    [id |-> id, email |-> email, name |-> name, phone |-> "555", schoolId |-> schoolId,
     isActive |-> TRUE]
TutorUser(id, email, name, schoolId, tutorId) ==
    [id |-> id, email |-> email, name |-> name, phone |-> "555", password |-> TempPassword,
     role |-> "TEACHER", schoolId |-> schoolId, tutorId |-> tutorId]
GradeRow(id, schoolId) ==
    [id |-> id, name |-> G1, schoolId |-> schoolId, order |-> 1, isActive |-> TRUE]
SectionRow(id, gradeId, tutorId) ==
    [id |-> id, name |-> SecA, gradeId |-> gradeId, classTutorId |-> tutorId, isActive |-> TRUE]
SubjectRow(id, sectionId) ==
    [id |-> id, name |-> "English", sectionId |-> sectionId, isActive |-> TRUE]

\* one school with its admin and nothing else
InitOneSchool ==
    /\ schools = {School1}
    /\ users = {SeedUser, Admin1}
    /\ tutors = {}
    /\ grades = {}
    /\ sections = {}
    /\ subjects = {}
    /\ assignments = {}
    /\ auditLog = {}
    /\ InitRest

\* one school with two tutors and grade "G1", section "A", subject "English"
InitClass ==
    /\ schools = {School1}
    /\ users = {SeedUser, Admin1, TutorUser("u3", "jane@lin", "Jane", "s1", "t1"),
                TutorUser("u4", "joe@lin", "Joe", "s1", "t2")}
    /\ tutors = {TutorRow("t1", "jane@lin", "Jane", "s1"), TutorRow("t2", "joe@lin", "Joe", "s1")}
    /\ grades = {GradeRow("g1", "s1")}
    /\ sections = {SectionRow("c1", "g1", NULL)}
    /\ subjects = {SubjectRow("x1", "c1")}
    /\ assignments = {}
    /\ auditLog = {Logged("CREATE_TUTOR", "t1"), Logged("CREATE_TUTOR", "t2"),
                   Logged("CREATE_GRADE", "g1")}
    /\ InitRest

\* two schools; the second has a tutor who teaches English in G1-A and is its class tutor
InitTwoSchools ==
    /\ schools = {School1, School2}
    /\ users = {SeedUser, Admin1, Admin2, TutorUser("u3", "jane@lin", "Jane", "s1", "t1"),
                TutorUser("u5", "kim@oak", "Kim", "s2", "t3")}
    /\ tutors = {TutorRow("t1", "jane@lin", "Jane", "s1"), TutorRow("t3", "kim@oak", "Kim", "s2")}
    /\ grades = {GradeRow("g1", "s1"), GradeRow("g2", "s2")}
    /\ sections = {SectionRow("c1", "g1", NULL), SectionRow("c2", "g2", "t3")}
    /\ subjects = {SubjectRow("x1", "c1"), SubjectRow("x2", "c2")}
    /\ assignments = {[id |-> "a2", tutorId |-> "t3", sectionSubjectId |-> "x2",
                       isActive |-> TRUE]}
    /\ auditLog = {Logged("CREATE_TUTOR", "t1"), Logged("CREATE_TUTOR", "t3"),
                   Logged("CREATE_GRADE", "g1"), Logged("CREATE_GRADE", "g2"),
                   Logged("ASSIGN_TUTOR", "t3")}
    /\ InitRest

\* the identities tokens carry
SuperActor == [userId |-> "u0", role |-> "SUPERADMIN", schoolId |-> Undefined]
Admin1Actor == [userId |-> "u1", role |-> "SCHOOL_ADMIN", schoolId |-> "s1"]
Teacher1Actor == [userId |-> "u3", role |-> "TEACHER", schoolId |-> "s1"]

(***************************************************************************)
(* School provisioning, two requests in flight                             *)
(***************************************************************************)
Codes == {"LIN01", "OAK02"}

AdminEmails == {"superadmin@system.com", "a@lin", "b@oak"}

SchoolBodies == [valid : BOOLEAN, code : Codes, adminEmail : AdminEmails, adminName : {"Ann"},
                 adminPhone : {"100"}]

NextSchool ==
    \E r \in Slots :
        \/ \E body \in SchoolBodies : CreateSchoolBegin(r, body)
        \/ CreateSchoolCommit(r)

SpecSchool == InitSeed /\ [][NextSchool]_vars

\* C1: a createSchool call (with its required fields present) whose code is the code
\* of a School that exists when the call answers responds 409 and inserts no School
\* row and no User row -- also when another createSchool runs concurrently.
C1_DuplicateCodeIs409 ==
    [][(/\ Responds
        /\ resp'.op = "createSchool"
        /\ resp'.args.valid
        /\ \E s \in schools : s.code = resp'.args.code)
       => (resp'.status = 409 /\ schools' = schools /\ users' = users)]_vars

(***************************************************************************)
(* Tutor creation, two requests in flight                                  *)
(***************************************************************************)
TutorBodies == [user : {SuperActor}, schoolId : {"s1", "s9"}, valid : BOOLEAN,
                email : {"admin@lin", "jane@lin", "joe@lin"}, name : {"Jane"},
                phone : {"555"}]

NextTutor ==
    \E r \in Slots :
        \/ \E args \in TutorBodies : CreateTutorBegin(r, args)
        \/ CreateTutorCommit(r)

SpecTutor == InitOneSchool /\ [][NextTutor]_vars

\* C2: a createTutor call (authorised, required fields present, for an existing
\* school) whose email is the email of a Tutor or a User that exists when the call
\* answers responds 409 and creates neither a Tutor row nor a User row -- also when
\* the row was created by a request racing with it.
C2_DuplicateEmailIs409 ==
    [][(/\ Responds
        /\ resp'.op = "createTutor"
        /\ resp'.args.valid
        /\ AdminGuard(resp'.args) = 0
        /\ \E s \in schools : s.id = resp'.args.schoolId
        /\ \/ \E t \in tutors : t.email = resp'.args.email
           \/ \E u \in users : u.email = resp'.args.email)
       => (resp'.status = 409 /\ tutors' = tutors /\ users' = users)]_vars

(***************************************************************************)
(* The role guard on its own                                               *)
(***************************************************************************)
GateUsers == {NoUser} \cup [userId : {"u"}, role : Roles, schoolId : {Undefined, "s1", "s2"}]

GateUrls == {Undefined, "s1", "s2"}

\* one call of the middleware requireRole(...allowed) on a request
RoleGate(user, allowed, urlSchoolId) ==
    /\ LET o == RequireRole(user, allowed, urlSchoolId) IN
       gate' = [user |-> user, allowed |-> allowed, urlSchoolId |-> urlSchoolId,
                status |-> o.status, nexts |-> o.nexts]
    /\ UNCHANGED <<dbvars, auditLog, reqs, resp>>

NextRole ==
    \E user \in GateUsers, allowed \in SUBSET Roles, url \in GateUrls :
        RoleGate(user, allowed, url)

SpecRole == InitSeed /\ [][NextRole]_vars

GatePasses ==
    /\ gate.user # NoUser
    /\ gate.user.role \in gate.allowed
    /\ (gate.user.role = "SUPERADMIN" \/ gate.user.schoolId = gate.urlSchoolId)

\* C9: requireRole(allowedRoles) calls next exactly once and sends no response if and
\* only if req.user is set, its role is allowed, and the role is SUPERADMIN or the
\* token's schoolId equals the URL's; it answers 401 when req.user is absent and 403
\* in every other case, and never both answers and calls next.
C9_RequireRole ==
    gate # NoGate =>
        /\ (gate.nexts = 1 /\ gate.status = 0) <=> GatePasses
        /\ gate.user = NoUser => gate.status = 401
        /\ (gate.user # NoUser /\ ~GatePasses) => gate.status = 403
        /\ gate.nexts \in {0, 1}
        /\ ~(gate.status # 0 /\ gate.nexts > 0)

\* a school admin is stopped at another school's URL
C9_Witness ==
    /\ gate.user # NoUser
    /\ gate.user.role = "SCHOOL_ADMIN"
    /\ gate.user.role \in gate.allowed
    /\ gate.user.schoolId = "s1"
    /\ gate.urlSchoolId = "s2"
    /\ gate.status = 403
    /\ gate.nexts = 0

(***************************************************************************)
(* Grade creation, two requests in flight                                  *)
(***************************************************************************)
G2 == <<"G", "2">>

\* a section list with two subjects, one that repeats a subject name, one that
\* repeats a section name, and one with two sections
GradeSectionLists ==
    { <<[name |-> SecA, subjects |-> <<"English", "Maths">>]>>,
      <<[name |-> SecA, subjects |-> <<"English", "English">>]>>,
      <<[name |-> SecA, subjects |-> <<"English">>], [name |-> SecA, subjects |-> <<>>]>>,
      <<[name |-> SecA, subjects |-> <<"English">>], [name |-> SecB, subjects |-> <<"Maths">>]>>,
      <<>> }

GradeBodies == [user : {SuperActor}, schoolId : {"s1", "s9"}, gradeName : {G1, G2},
                order : {<<>>}, sections : GradeSectionLists]

NextGrade ==
    \E r \in Slots :
        \/ \E args \in GradeBodies : CreateGradeBegin(r, args)
        \/ CreateGradeCommit(r)

SpecGrade == InitOneSchool /\ [][NextGrade]_vars

\* the rows a createGrade request asks for are all there, as rows this step made
AllCreated(a) ==
    \E g \in grades' \ grades :
        /\ g.name = a.gradeName
        /\ g.schoolId = a.schoolId
        /\ \A i \in 1..Len(a.sections) :
             \E sec \in sections' \ sections :
                /\ sec.gradeId = g.id
                /\ sec.name = a.sections[i].name
                /\ \A j \in 1..Len(a.sections[i].subjects) :
                     \E x \in subjects' \ subjects :
                        x.sectionId = sec.id /\ x.name = a.sections[i].subjects[j]

NoneCreated == grades' = grades /\ sections' = sections /\ subjects' = subjects

\* C10: createGrade is all-or-nothing: every step of every createGrade request, alone
\* or next to another request, failing or not, either leaves the Grade together with
\* every requested Section and SectionSubject, or leaves none of those rows.
C10_CreateGradeAllOrNothing ==
    [][/\ (Responds /\ resp'.op = "createGrade")
            => IF resp'.status = 201
               THEN /\ AllCreated(resp'.args)
                    /\ Cardinality(sections' \ sections) = Len(resp'.args.sections)
               ELSE NoneCreated
       /\ ~Responds => NoneCreated]_vars

\* a request that repeats a section name has failed and no row of it is left
C10_Witness ==
    /\ resp.op = "createGrade"
    /\ resp.status = 500
    /\ Len(resp.args.sections) = 2
    /\ resp.args.sections[1].name = resp.args.sections[2].name
    /\ grades = {}
    /\ sections = {}
    /\ subjects = {}

(***************************************************************************)
(* Subject assignment and subject lists of one class, one request at a time *)
(***************************************************************************)
AssignMaps ==
    { <<>>,
      <<[key |-> MakeKey(G1, SecA), subjects |-> <<"English">>]>>,
      <<[key |-> MakeKey(G1, SecA), subjects |-> <<"Maths", "English">>]>>,
      <<[key |-> MakeKey(G1, SecB), subjects |-> <<"English">>]>> }

AssignBodies == [user : {SuperActor}, schoolId : {"s1"}, tutorId : {"t1", "t2"},
                 assignments : AssignMaps, classGrade : {<<>>}, classSection : {<<>>}]

SubjectLists == {<<>>, <<"English">>, <<"Maths">>, <<"English", "English">>}

SubjectBodies == [user : {SuperActor}, schoolId : {"s1"}, sectionId : {"c1"},
                  subjects : SubjectLists]

NextAssign ==
    \/ \E args \in AssignBodies : SmartAssignBegin("r1", args)
    \/ SmartAssignCommit("r1")
    \/ \E args \in SubjectBodies : UpdateSectionSubjectsBegin("r1", args)
    \/ UpdateSectionSubjectsCommit("r1")

SpecAssign == InitClass /\ [][NextAssign]_vars

\* C3: smartAssignTutor is idempotent: when two calls in a row carry the same tutor and
\* the same assignments map, every item the first call reported as created is reported
\* by the second call as skipped, and the second call creates or changes no
\* SectionSubject row and no TutorSubjectAssignment row.
C3_SmartAssignIdempotent ==
    [][(/\ resp.op = "smartAssignTutor"
        /\ Responds
        /\ resp'.op = "smartAssignTutor"
        /\ resp'.args = resp.args)
       => /\ Range(resp.out.created) \subseteq Range(resp'.out.skipped)
          /\ subjects' = subjects
          /\ assignments' = assignments]_vars

\* a call that found everything it asked for already assigned
C3_Witness ==
    /\ resp.op = "smartAssignTutor"
    /\ resp.status = 201
    /\ resp.out.created = <<>>
    /\ Len(resp.out.skipped) = 2
    /\ Cardinality({a \in assignments : a.tutorId = resp.args.tutorId /\ a.isActive}) = 2

\* C4: a SectionSubject that updateSectionSubjects deactivated, and whose name a later
\* updateSectionSubjects on the same section lists again, is active again under the
\* same id, and no second row of that section and name exists.
C4_ReactivationRoundTrip ==
    [][(/\ Responds
        /\ resp'.op = "updateSectionSubjects"
        /\ resp'.args.user = SuperActor)
       => \A x \in subjects :
            (/\ x.sectionId = resp'.args.sectionId
             /\ ~x.isActive
             /\ x.name \in Range(resp'.args.subjects))
            => /\ [x EXCEPT !.isActive = TRUE] \in subjects'
               /\ Cardinality({y \in subjects' : y.sectionId = x.sectionId
                                                 /\ y.name = x.name}) = 1]_vars

(***************************************************************************)
(* Class tutors and tutor deletion, two requests in flight                 *)
(***************************************************************************)
ClassAssignBodies ==
    [user : {SuperActor}, schoolId : {"s1"}, tutorId : {"t1", "t2"},
     assignments : {<<>>, <<[key |-> MakeKey(G1, SecA), subjects |-> <<"English">>]>>},
     classGrade : {G1}, classSection : {SecA}]
    \cup
    [user : {SuperActor}, schoolId : {"s1"}, tutorId : {"t1"},
     assignments : {<<[key |-> MakeKey(G1, SecA), subjects |-> <<"English">>]>>},
     classGrade : {<<>>}, classSection : {<<>>}]

ClassTutorBodies == [user : {SuperActor}, schoolId : {"s1"}, sectionId : {"c1", "c9"},
                     tutorId : {"t1", "t2"}]

DeleteTutorBodies == [user : {SuperActor}, schoolId : {"s1"}, tutorId : {"t1", "t2"},
                      force : {"true", Undefined}]

NextClass ==
    \E r \in Slots :
        \/ \E args \in ClassAssignBodies : SmartAssignBegin(r, args)
        \/ SmartAssignCommit(r)
        \/ \E args \in ClassTutorBodies : AssignClassTutorBegin(r, args)
        \/ AssignClassTutorCommit(r)
        \/ \E args \in DeleteTutorBodies : DeleteTutorBegin(r, args)
        \/ DeleteTutorCommit(r)

SpecClass == InitClass /\ [][NextClass]_vars

\* a deleteTutor request with arguments a is read and checked in this step: it is
\* answered at once, or it goes on to its delete
DeleteTutorChecked(a) ==
    \/ Responds /\ resp'.op = "deleteTutor" /\ resp'.args = a /\ reqs' = reqs
    \/ \E r \in Slots : reqs[r] = Idle /\ reqs'[r].op = "deleteTutor" /\ reqs'[r].args = a

\* C5: deleteTutor without force on a tutor with at least one active subject assignment
\* answers 400 and leaves the Tutor, its User, its assignments and every
\* Section.classTutorId as they were; with force=true it removes the Tutor, its linked
\* User and all its assignments, and clears classTutorId on every section that pointed
\* at it.
C5_DeleteTutor ==
    [][/\ \A a \in DeleteTutorBodies :
            (/\ DeleteTutorChecked(a)
             /\ a.force # "true"
             /\ \E x \in assignments : x.tutorId = a.tutorId /\ x.isActive)
            => /\ Responds
               /\ resp'.status = 400
               /\ tutors' = tutors
               /\ users' = users
               /\ assignments' = assignments
               /\ sections' = sections
       /\ (/\ Responds
           /\ resp'.op = "deleteTutor"
           /\ resp'.args.force = "true"
           /\ \E t \in tutors : t.id = resp'.args.tutorId)
          => LET id == resp'.args.tutorId IN
             /\ resp'.status = 200
             /\ tutors' = {t \in tutors : t.id # id}
             /\ users' = {u \in users : u.tutorId # id}
             /\ assignments' = {x \in assignments : x.tutorId # id}
             /\ \A s \in sections' : s.classTutorId # id
             /\ {[s EXCEPT !.classTutorId = NULL] : s \in sections'}
                  = {[s EXCEPT !.classTutorId = NULL] : s \in sections}
             /\ \A s \in sections : s.classTutorId # id => s \in sections']_vars

\* a tutor with an active assignment was asked to be deleted without force, and
\* the tutor, its user and its assignment are there
C5_Witness ==
    /\ resp.op = "deleteTutor"
    /\ resp.args.force # "true"
    /\ resp.status = 400
    /\ \E t \in tutors : t.id = resp.args.tutorId
    /\ \E u \in users : u.tutorId = resp.args.tutorId
    /\ \E x \in assignments : x.tutorId = resp.args.tutorId /\ x.isActive

\* the section a class tutor request is aimed at
TargetSections(op, args) ==
    IF op = "assignClassTutor" THEN {s \in sections : s.id = args.sectionId}
    ELSE IF op = "smartAssignTutor" /\ args.classGrade # <<>> /\ args.classSection # <<>>
    THEN {s \in sections :
            /\ s.name = args.classSection /\ s.isActive
            /\ \E g \in ActiveGrade(DB, args.schoolId, args.classGrade) : s.gradeId = g.id}
    ELSE {}

\* C6: smartAssignTutor with classGrade/classSection and assignClassTutor, aimed at
\* a section whose classTutorId is set to a different tutor, record an error and
\* leave the section's classTutorId as it was.
C6_ClassTutorNotOverwritten ==
    [][(/\ Responds
        /\ resp'.op \in {"assignClassTutor", "smartAssignTutor"}
        /\ resp'.args.tutorId \in {t.id : t \in tutors})
       => \A s \in TargetSections(resp'.op, resp'.args) :
            (s.classTutorId # NULL /\ s.classTutorId # resp'.args.tutorId)
            => /\ s \in sections'
               /\ \/ resp'.status >= 400
                  \/ \E i \in 1..Len(resp'.out.errors) :
                        resp'.out.errors[i].kind = "classTutor"]_vars

(***************************************************************************)
(* From an empty system to a listed assignment, one request at a time      *)
(***************************************************************************)
GLine == <<"G", "\n">>
SecLower == <<"a">>
SecAB == <<"A", "B">>

E2EGradeNames == {G1, GLine}
E2ESectionNames == {SecA, SecLower, SecAB}

E2ESchoolBodies == [valid : {TRUE}, code : {"LIN01"}, adminEmail : {"a@lin"},
                    adminName : {"Ann"}, adminPhone : {"100"}]

\* the ids a client sends are ids it was given
SchoolIds == {x.id : x \in schools}
TutorIds == {t.id : t \in tutors}

E2EGradeBodies ==
    [user : {SuperActor}, schoolId : SchoolIds, gradeName : E2EGradeNames, order : {<<>>},
     sections : {<<[name |-> n, subjects |-> <<"English", "Maths">>]>> :
                    n \in E2ESectionNames}]

E2ETutorBodies == [user : {SuperActor}, schoolId : SchoolIds, valid : {TRUE},
                   email : {"jane@lin"}, name : {"Jane"}, phone : {"555"}]

E2EAssignBodies ==
    [user : {SuperActor}, schoolId : SchoolIds, tutorId : TutorIds,
     assignments : {<<[key |-> MakeKey(g, n), subjects |-> <<x>>]>> :
                       <<g, n, x>> \in E2EGradeNames \X E2ESectionNames \X {"English", "Maths"}},
     classGrade : {<<>>}, classSection : {<<>>}]

NextE2E ==
    \/ \E body \in E2ESchoolBodies : CreateSchoolBegin("r1", body)
    \/ CreateSchoolCommit("r1")
    \/ \E args \in E2EGradeBodies : CreateGradeBegin("r1", args)
    \/ CreateGradeCommit("r1")
    \/ \E args \in E2ETutorBodies : CreateTutorBegin("r1", args)
    \/ CreateTutorCommit("r1")
    \/ \E args \in E2EAssignBodies : SmartAssignBegin("r1", args)
    \/ SmartAssignCommit("r1")

SpecE2E == InitSeed /\ [][NextE2E]_vars

\* the rows listGrades reads, after the step
ListedNext == [grades |-> grades', sections |-> sections', subjects |-> subjects',
               assignments |-> assignments']

SingleUpper(name) == Len(name) = 1 /\ name[1] \in Upper

NoLineTerminator(name) == \A i \in 1..Len(name) : name[i] \notin LineTerminators

\* The answer to smartAssignTutor(t, {"g-s": [x]}) where grade g, its section s and
\* the subject x of s are rows in the school and x is assigned to nobody else: 201,
\* and listGrades then shows x (the same row, the only one of its name) under s of g
\* with tutor t.  parsable restricts the names to those the key pattern splits.
EndToEnd(parsable) ==
    (/\ Responds
     /\ resp'.op = "smartAssignTutor"
     /\ Len(resp'.args.assignments) = 1)
    => LET a == resp'.args
           e == a.assignments[1] IN
       \A g \in grades, c \in sections, x \in subjects :
          (/\ g.schoolId = a.schoolId /\ g.isActive
           /\ c.gradeId = g.id /\ c.isActive
           /\ x.sectionId = c.id /\ x.isActive
           /\ e.key = MakeKey(g.name, c.name)
           /\ e.subjects = <<x.name>>
           /\ ~\E y \in assignments : y.sectionSubjectId = x.id /\ y.tutorId # a.tutorId
           /\ parsable => (SingleUpper(c.name) /\ NoLineTerminator(g.name)))
          => /\ resp'.status = 201
             /\ \E l \in ListGrades(ListedNext, a.schoolId) :
                   /\ l.grade = g.name
                   /\ l.section = c.name
                   /\ l.subject = x.name
                   /\ l.subjectId = x.id
                   /\ l.tutors = {a.tutorId}
             /\ {y \in subjects' : y.sectionId = c.id /\ y.name = x.name} = {x}

\* C7 as stated: end to end, after createSchool, createGrade(g, section s with
\* subjects including x), createTutor(t) and smartAssignTutor(t, {"g-s": [x]}), with no
\* other assignment to x, listGrades returns x under s of g with tutor t, and x is
\* still the single SectionSubject row createGrade made.
C7_EndToEnd_AnyName == [][EndToEnd(FALSE)]_vars

\* C7, amended: the same, for a section name that is one letter A-Z and a grade name
\* without a line terminator (the names the key pattern ^(.+)-([A-Z])$ splits).
C7_EndToEnd == [][EndToEnd(TRUE)]_vars

\* the scenario has run: a tutor is listed on English of section A and the subject
\* rows are the two createGrade made
C7_Witness ==
    /\ resp.op = "smartAssignTutor"
    /\ resp.status = 201
    /\ Len(resp.out.created) = 1
    /\ Cardinality(subjects) = 2
    /\ \E l \in ListGrades(DB, resp.args.schoolId) :
          /\ l.grade = G1
          /\ l.section = SecA
          /\ l.subject = "English"
          /\ l.tutors = {resp.args.tutorId}

(***************************************************************************)
(* Two schools, requests of school s1's admin and teacher, one at a time   *)
(***************************************************************************)
TenantActors == {Admin1Actor, Teacher1Actor}

TenantDeleteBodies == [user : TenantActors, schoolId : {"s1", "s2"}, tutorId : {"t1", "t3"},
                       force : {"true", Undefined}]

TenantUpdateBodies == [user : TenantActors, schoolId : {"s1", "s2"}, tutorId : {"t1", "t3"},
                       name : {Undefined, "Lee"}, email : {Undefined}, phone : {Undefined},
                       isActive : {Undefined, "false"}]

TenantClearBodies == [user : TenantActors, schoolId : {"s1", "s2"}, tutorId : {"t1", "t3"}]

NextTenant ==
    \/ \E args \in TenantDeleteBodies : DeleteTutorBegin("r1", args)
    \/ DeleteTutorCommit("r1")
    \/ \E args \in TenantUpdateBodies : UpdateTutorBegin("r1", args)
    \/ UpdateTutorCommit("r1")
    \/ \E args \in TenantClearBodies : DeleteAllTutorAssignmentsBegin("r1", args)
    \/ DeleteAllTutorAssignmentsCommit("r1")

SpecTenant == InitTwoSchools /\ [][NextTenant]_vars

\* the rows that belong to a school
RowsOf(schoolId) ==
    LET gs == {g \in grades : g.schoolId = schoolId}
        cs == {c \in sections : \E g \in gs : c.gradeId = g.id}
        xs == {x \in subjects : \E c \in cs : x.sectionId = c.id}
        ts == {t \in tutors : t.schoolId = schoolId}
    IN [tutors |-> ts,
        users |-> {u \in users : u.schoolId = schoolId},
        grades |-> gs,
        sections |-> cs,
        subjects |-> xs,
        assignments |-> {a \in assignments : \/ \E t \in ts : a.tutorId = t.id
                                              \/ \E x \in xs : a.sectionSubjectId = x.id}]

\* C8: a request of a SCHOOL_ADMIN or TEACHER of school s1, whatever URL schoolId and
\* entity ids it carries, never creates, modifies or deletes a Tutor, User, Grade,
\* Section, SectionSubject or TutorSubjectAssignment of school s2.
C8_TenantIsolation == [][RowsOf("s2")' = RowsOf("s2")]_vars

(***************************************************************************)
(* smartAssignTutor with keys that do not resolve, one request at a time   *)
(***************************************************************************)
GoodEntries == {[key |-> MakeKey(G1, SecA), subjects |-> <<"English">>],
                [key |-> MakeKey(G1, SecA), subjects |-> <<"Maths">>]}

\* a key the pattern rejects, a grade that is not there, a section that is not there
BadEntries == {[key |-> MakeKey(G1, SecLower), subjects |-> <<"English">>],
               [key |-> MakeKey(G2, SecA), subjects |-> <<"English">>],
               [key |-> MakeKey(G1, SecB), subjects |-> <<"English">>]}

PartialMaps ==
    {<<g>> : g \in GoodEntries} \cup {<<b>> : b \in BadEntries}
    \cup {<<b, g>> : <<b, g>> \in BadEntries \X GoodEntries}
    \cup {<<g, b>> : <<g, b>> \in GoodEntries \X BadEntries}

PartialBodies == [user : {SuperActor}, schoolId : {"s1"}, tutorId : {"t1"},
                  assignments : PartialMaps, classGrade : {<<>>}, classSection : {<<>>}]

PartialSubjectBodies == [user : {SuperActor}, schoolId : {"s1"}, sectionId : {"c1"},
                         subjects : {<<>>, <<"English">>}]

NextPartial ==
    \/ \E args \in PartialBodies : SmartAssignBegin("r1", args)
    \/ SmartAssignCommit("r1")
    \/ \E args \in PartialSubjectBodies : UpdateSectionSubjectsBegin("r1", args)
    \/ UpdateSectionSubjectsCommit("r1")

SpecPartial == InitClass /\ [][NextPartial]_vars

\* the key of the entry parses and names an active grade of the school and an active
\* section of it
Resolves(schoolId, entry) ==
    LET m == ParseKey(entry.key) IN
    /\ m.ok
    /\ \E g \in ActiveGrade(DB, schoolId, m.gradeName) :
          ActiveSection(DB, g.id, m.sectionName) # {}

SmartAssignStatus(acc) == IF acc.st.ok THEN 201 ELSE IF acc.st.err = "P2002" THEN 409 ELSE 500

CrossClassTutorBodies == [user : {SuperActor}, schoolId : {"s1", "s2"},
                           sectionId : {"c1", "c2"}, tutorId : {"t1", "t3"}]

DeleteSchoolBodies == [id : {"s1", "s2", "s9"}]

NextSchoolDelete ==
    \/ \E args \in CrossClassTutorBodies : AssignClassTutorBegin("r1", args)
    \/ AssignClassTutorCommit("r1")
    \/ \E args \in DeleteSchoolBodies : DeleteSchoolBegin("r1", args)
    \/ DeleteSchoolCommit("r1")

SpecSchoolDelete == InitTwoSchools /\ [][NextSchoolDelete]_vars

\* every reference of a row names a row that is there
References ==
    /\ \A u \in users : /\ u.schoolId # NULL => \E x \in schools : x.id = u.schoolId
                        /\ u.tutorId # NULL => \E t \in tutors : t.id = u.tutorId
    /\ \A t \in tutors : \E x \in schools : x.id = t.schoolId
    /\ \A g \in grades : \E x \in schools : x.id = g.schoolId
    /\ \A c \in sections : /\ \E g \in grades : g.id = c.gradeId
                           /\ c.classTutorId # NULL => \E t \in tutors : t.id = c.classTutorId
    /\ \A x \in subjects : \E c \in sections : c.id = x.sectionId
    /\ \A a \in assignments : /\ \E t \in tutors : t.id = a.tutorId
                              /\ \E x \in subjects : x.id = a.sectionSubjectId

NoRows == [tutors |-> {}, users |-> {}, grades |-> {}, sections |-> {}, subjects |-> {},
           assignments |-> {}]

\* C12: after deleteSchool(id) succeeds no User, Tutor, Grade, Section, SectionSubject
\* or TutorSubjectAssignment of that school remains, no remaining row references a
\* deleted row, and every row of the other schools is unchanged.
C12_DeleteSchoolCascade ==
    [][(/\ Responds
        /\ resp'.op = "deleteSchool"
        /\ resp'.status = 200)
       => /\ References'
          /\ \A x \in schools :
                IF x.id = resp'.args.id THEN RowsOf(x.id)' = NoRows
                ELSE RowsOf(x.id)' = RowsOf(x.id)]_vars

\* C13: createSchool leaves no partial state: in every reachable state each School
\* exists together with its SCHOOL_ADMIN User and no SCHOOL_ADMIN User exists without
\* its School, also after a failed request and when two requests with different
\* codes and the same adminEmail run concurrently.
C13_SchoolWithAdmin ==
    /\ \A x \in schools : \E u \in users : u.role = "SCHOOL_ADMIN" /\ u.schoolId = x.id
    /\ \A u \in users : u.role = "SCHOOL_ADMIN" => \E x \in schools : x.id = u.schoolId

\* a request lost the race for its admin email: it failed, its code names no
\* school, and the winner's school is there
C13_Witness ==
    /\ resp.op = "createSchool"
    /\ resp.status = 500
    /\ ~\E x \in schools : x.code = resp.args.code
    /\ \E u \in users : u.email = resp.args.adminEmail /\ u.role = "SCHOOL_ADMIN"
    /\ schools # {}

(***************************************************************************)
(* Tutors and their users, one request at a time                           *)
(***************************************************************************)
SyncTutorBodies == [user : {SuperActor}, schoolId : {"s1"}, valid : {TRUE},
                    email : {"jane@lin", "joe@lin"}, name : {"Jane"}, phone : {"555"}]

SyncUpdateBodies ==
    [user : {SuperActor}, schoolId : {"s1"}, tutorId : TutorIds, name : {Undefined, "Lee"},
     email : {Undefined, "jane@lin"}, phone : {Undefined, "777"},
     isActive : {Undefined}]

SyncResetBodies == [user : {SuperActor}, schoolId : {"s1"}, tutorId : TutorIds]

SyncSchoolBodies == [id : {"s1"}, code : {Undefined}, adminName : {Undefined},
                     adminEmail : {Undefined, "jane@lin"}, adminPhone : {"777"}]

NextTutorSync ==
    \/ \E args \in SyncTutorBodies : CreateTutorBegin("r1", args)
    \/ CreateTutorCommit("r1")
    \/ \E args \in SyncUpdateBodies : UpdateTutorBegin("r1", args)
    \/ UpdateTutorCommit("r1")
    \/ \E args \in SyncResetBodies : ResetTutorPasswordBegin("r1", args)
    \/ ResetTutorPasswordCommit("r1")
    \/ \E args \in SyncSchoolBodies : UpdateSchoolBegin("r1", args)
    \/ UpdateSchoolCommit("r1")

SpecTutorSync == InitOneSchool /\ [][NextTutorSync]_vars

\* C14: after any sequence of createTutor, updateTutor, resetTutorPassword and
\* updateSchool calls, successful or failing, every Tutor has exactly one linked User,
\* with role TEACHER and the Tutor's schoolId, name, email and phone.
C14_TutorUserInSync ==
    \A t \in tutors :
        LET linked == {u \in users : u.tutorId = t.id} IN
        /\ Cardinality(linked) = 1
        /\ \A u \in linked : /\ u.role = "TEACHER"
                             /\ u.schoolId = t.schoolId
                             /\ u.name = t.name
                             /\ u.email = t.email
                             /\ u.phone = t.phone

\* an updateTutor failed on the email of another user after an earlier one had
\* renamed a tutor and its user
C14_Witness ==
    /\ resp.op = "updateTutor"
    /\ resp.status = 500
    /\ \E t \in tutors : /\ t.name = "Lee"
                         /\ t.phone = "777"
                         /\ \E u \in users : u.tutorId = t.id /\ u.name = "Lee"

\* C15: for every existing section and every desired subject-name list, also one
\* that repeats a name, updateSectionSubjects succeeds, and afterwards the active
\* subject names of the section are the names of the list, subjects not in the list
\* are deactivated and not deleted, and no two rows share (sectionId, name).
C15_SubjectsReconciled ==
    [][(/\ Responds
        /\ resp'.op = "updateSectionSubjects"
        /\ \E c \in sections : c.id = resp'.args.sectionId)
       => LET id == resp'.args.sectionId IN
          /\ resp'.status = 200
          /\ {x.name : x \in {y \in subjects' : y.sectionId = id /\ y.isActive}}
               = Range(resp'.args.subjects)
          /\ {x.id : x \in subjects} \subseteq {x.id : x \in subjects'}
          /\ \A x, y \in subjects' :
                (x.sectionId = y.sectionId /\ x.name = y.name) => x = y]_vars

(***************************************************************************)
(* Replacing the assignments of a tutor, one request at a time             *)
(***************************************************************************)
ReplaceMaps ==
    { <<>>,
      <<[key |-> MakeKey(G1, SecA), subjects |-> <<"Maths">>]>>,
      <<[key |-> MakeKey(G1, SecB), subjects |-> <<"English">>]>> }

\* what the tutors are given first: subjects and a class for t1, a class for t2
FirstBodies ==
    {[user |-> SuperActor, schoolId |-> "s1", tutorId |-> "t1",
      assignments |-> <<[key |-> MakeKey(G1, SecA), subjects |-> <<"English">>]>>,
      classGrade |-> G1, classSection |-> SecA],
     [user |-> SuperActor, schoolId |-> "s1", tutorId |-> "t2", assignments |-> <<>>,
      classGrade |-> G1, classSection |-> SecA]}

ReplaceBodies ==
    [user : {SuperActor}, schoolId : {"s1"}, tutorId : {"t1"}, assignments : ReplaceMaps,
     classGrade : {<<>>}, classSection : {<<>>}]
    \cup
    [user : {SuperActor}, schoolId : {"s1"}, tutorId : {"t1"}, assignments : {<<>>},
     classGrade : {G1}, classSection : {SecA}]

NextReplace ==
    \/ \E args \in FirstBodies : SmartAssignBegin("r1", args)
    \/ SmartAssignCommit("r1")
    \/ \E args \in ReplaceBodies : UpdateTutorAssignmentsBegin("r1", args)
    \/ UpdateTutorAssignmentsDelete("r1")
    \/ UpdateTutorAssignmentsCheck("r1")
    \/ UpdateTutorAssignmentsCommit("r1")

SpecReplace == InitClass /\ [][NextReplace]_vars

\* the (sectionId, subject name) pairs the entries with a resolving key name
NamedPairs(a) ==
    {<<c.id, n>> : <<c, n>> \in
        {p \in sections \X {"English", "Maths"} :
            \E i \in 1..Len(a.assignments) :
               LET e == a.assignments[i]
                   m == ParseKey(e.key) IN
               /\ m.ok
               /\ p[1].name = m.sectionName /\ p[1].isActive
               /\ \E g \in ActiveGrade(DB, a.schoolId, m.gradeName) : p[1].gradeId = g.id
               /\ p[2] \in Range(e.subjects)}}

\* C16: updateTutorAssignments replaces: after a successful call the tutor's subject
\* assignments are exactly the (section, subject) pairs of the map whose keys resolve,
\* every assignment the tutor had before and the map does not name is gone, and the
\* tutor is class tutor of no section other than the one classGrade/classSection name.
C16_AssignmentsReplaced ==
    [][(/\ Responds
        /\ resp'.op = "updateTutorAssignments"
        /\ resp'.status = 201)
       => LET a == resp'.args
              mine == {x \in assignments' : x.tutorId = a.tutorId} IN
          /\ \A x \in mine : x.isActive
          /\ {<<y.sectionId, y.name>> :
                 y \in {z \in subjects' : \E x \in mine : x.sectionSubjectId = z.id}}
               = NamedPairs(a)
          /\ Cardinality(mine) = Cardinality(NamedPairs(a))
          /\ \A c \in sections' :
                c.classTutorId = a.tutorId
                => /\ c.name = a.classSection
                   /\ \E g \in grades : g.id = c.gradeId /\ g.name = a.classGrade]_vars

\* the tutor's assignment to English was replaced by one to Maths
C16_Witness ==
    /\ resp.op = "updateTutorAssignments"
    /\ resp.status = 201
    /\ resp.args.assignments = <<[key |-> MakeKey(G1, SecA), subjects |-> <<"Maths">>]>>
    /\ \E y \in subjects : y.name = "English" /\ y.isActive
    /\ \A x \in assignments :
          x.tutorId = resp.args.tutorId
          => \E y \in subjects : y.id = x.sectionSubjectId /\ y.name = "Maths"
    /\ \E x \in assignments : x.tutorId = resp.args.tutorId

(***************************************************************************)
(* The audit log under deletions, two requests in flight                   *)
(***************************************************************************)
AuditTutorBodies == [user : {SuperActor}, schoolId : {"s1"}, tutorId : {"t1", "t3"},
                     force : {"true"}]

AuditGradeBodies == [user : {SuperActor}, schoolId : {"s1"}, gradeId : {"g1", "g2"}]

AuditSchoolBodies == [id : {"s1", "s2"}]

AuditAssignBodies ==
    [user : {SuperActor}, schoolId : {"s1"}, tutorId : {"t1"},
     assignments : {<<[key |-> MakeKey(G1, SecA), subjects |-> <<"English">>]>>},
     classGrade : {<<>>}, classSection : {<<>>}]

NextAudit ==
    \E r \in Slots :
        \/ \E args \in AuditTutorBodies : DeleteTutorBegin(r, args)
        \/ DeleteTutorCommit(r)
        \/ \E args \in AuditGradeBodies : DeleteGradeBegin(r, args)
        \/ DeleteGradeCommit(r)
        \/ \E args \in AuditSchoolBodies : DeleteSchoolBegin(r, args)
        \/ DeleteSchoolCommit(r)
        \/ \E args \in AuditAssignBodies : SmartAssignBegin(r, args)
        \/ SmartAssignCommit(r)

SpecAudit == InitTwoSchools /\ [][NextAudit]_vars

\* C17: the AuditLog is append-only: every step of every operation, the cascades of
\* deleteSchool, deleteTutor and deleteGrade included, leaves every existing entry
\* unchanged and present; the log only grows.
C17_AuditAppendOnly == [][auditLog \subseteq auditLog']_vars

\* both schools are gone with everything in them, and the entries about their
\* tutors and grades, and about a deleted grade, are in the log
C17_Witness ==
    /\ schools = {}
    /\ tutors = {}
    /\ grades = {}
    /\ Logged("CREATE_TUTOR", "t1") \in auditLog
    /\ Logged("ASSIGN_TUTOR", "t3") \in auditLog
    /\ Logged("DELETE_GRADE", "g1") \in auditLog
    /\ Logged("DELETE_TUTOR", "t3") \in auditLog

\* C18: smartAssignTutor finds or creates the SectionSubject of every subject name
\* under a resolved section: also when a SectionSubject of that (sectionId, name)
\* exists and is deactivated, the call answers 201 and ends with exactly one
\* SectionSubject row of that (sectionId, name) and an active assignment of the tutor
\* to it.
C18_FindOrCreateSubject ==
    [][(/\ Responds
        /\ resp'.op = "smartAssignTutor"
        /\ reqs' # reqs)
       => LET a == resp'.args IN
          \A p \in NamedPairs(a) :
             (\E x \in subjects : x.sectionId = p[1] /\ x.name = p[2] /\ ~x.isActive)
             => /\ resp'.status = 201
                /\ Cardinality({x \in subjects' : x.sectionId = p[1] /\ x.name = p[2]}) = 1
                /\ \E x \in subjects' :
                      /\ x.sectionId = p[1] /\ x.name = p[2]
                      /\ \E y \in assignments' : /\ y.tutorId = a.tutorId
                                                 /\ y.sectionSubjectId = x.id
                                                 /\ y.isActive]_vars

(***************************************************************************)
(* Editing a grade: updateGrade on the grade of InitClass, one request at  *)
(* a time, with updateSectionSubjects to deactivate subjects               *)
(***************************************************************************)
EditSubjectLists == {<<>>, <<"English">>, <<"Maths">>, <<"English", "Maths">>}

EditSections ==
    {<<>>} \cup {<<[id |-> "c1", name |-> <<>>, subjects |-> <<l>>]>> : l \in EditSubjectLists}
           \cup {<<[id |-> "c1", name |-> <<SecB>>, subjects |-> <<>>]>>,
                 <<[id |-> NULL, name |-> <<SecB>>, subjects |-> <<<<"Maths">>>>]>>}

EditGradeBodies == [user : {SuperActor}, schoolId : {"s1"}, gradeId : {"g1"},
                    name : {<<>>}, order : {<<>>}, isActive : {<<>>},
                    sections : EditSections, deleteSectionIds : {{}}]
                   \cup [user : {SuperActor}, schoolId : {"s1"}, gradeId : {"g1", "g9"},
                         name : {<<>>, <<G2>>}, order : {<<>>, <<2>>}, isActive : {<<>>},
                         sections : {<<>>}, deleteSectionIds : {{}, {"c1"}}]

EditSubjectBodies == [user : {SuperActor}, schoolId : {"s1"}, sectionId : {"c1"},
                      subjects : {<<>>, <<"English">>}]

NextEdit ==
    \/ \E args \in EditGradeBodies : UpdateGradeBegin("r1", args)
    \/ UpdateGradeCommit("r1")
    \/ \E args \in EditSubjectBodies : UpdateSectionSubjectsBegin("r1", args)
    \/ UpdateSectionSubjectsCommit("r1")

SpecEdit == InitClass /\ [][NextEdit]_vars

ActiveNames(sectionId) == {x.name : x \in {y \in subjects : y.sectionId = sectionId /\ y.isActive}}

\* C19: updateGrade given an existing section id with a subjects list reconciles that
\* section: listed names absent from the section are created, listed names whose
\* SectionSubject was deactivated are reactivated, current subjects that are not
\* listed are deactivated, so that afterwards the active subject names of the section
\* are the names of the list.
C19_UpdateGradeReconciles ==
    [][(/\ Responds
        /\ resp'.op = "updateGrade"
        /\ reqs' # reqs)
       => \A i \in 1..Len(resp'.args.sections) :
             LET sd == resp'.args.sections[i] IN
             (/\ sd.id # NULL
              /\ sd.subjects # <<>>
              /\ \E c \in sections : c.id = sd.id)
             => /\ resp'.status = 200
                /\ \A c \in sections : c.id = sd.id
                      => ActiveNames(c.id)' = Range(sd.subjects[1])]_vars

(***************************************************************************)
(* The display order of grades: createGrade with and without an order and  *)
(* deleteGrade, one request at a time                                      *)
(***************************************************************************)
G3 == <<"G", "3">>

OrderGradeBodies == [user : {SuperActor}, schoolId : {"s1"}, gradeName : {G1, G2, G3},
                     order : {<<>>, <<1>>, <<5>>},
                     sections : {<<[name |-> SecA, subjects |-> <<>>]>>}]

OrderDeleteBodies == [user : {SuperActor}, schoolId : {"s1"}, gradeId : {"1", "3", "9"}]

NextOrder ==
    \/ \E args \in OrderGradeBodies : CreateGradeBegin("r1", args)
    \/ CreateGradeCommit("r1")
    \/ \E args \in OrderDeleteBodies : DeleteGradeBegin("r1", args)
    \/ DeleteGradeCommit("r1")

SpecOrder == InitOneSchool /\ [][NextOrder]_vars

\* the largest order among the grades of a school, 0 when it has none
MaxOrder(schoolId) ==
    LET os == {g.order : g \in {x \in grades : x.schoolId = schoolId}}
    IN IF os = {} THEN 0 ELSE CHOOSE m \in os : \A o \in os : o <= m

\* C20: createGrade called without an order stores order = 1 + the largest order among
\* the grades the school has at that moment (1 when it has none), whatever createGrade
\* calls (with or without an order) and deleteGrade calls came before.
C20_DefaultOrderIsMaxPlusOne ==
    [][(/\ Responds
        /\ resp'.op = "createGrade"
        /\ resp'.status = 201
        /\ resp'.args.order = <<>>)
       => \A g \in grades' \ grades : g.order = MaxOrder(resp'.args.schoolId) + 1]_vars

(***************************************************************************)
(* Two smartAssignTutor requests that name a vacant section as their class *)
(* section; deleteAllTutorAssignments vacates it again                     *)
(***************************************************************************)
RaceBodies ==
    [user : {SuperActor}, schoolId : {"s1"}, tutorId : {"t1", "t2"},
     assignments : {<<>>}, classGrade : {G1}, classSection : {SecA}]
    \cup
    [user : {SuperActor}, schoolId : {"s1"}, tutorId : {"t1"},
     assignments : {<<[key |-> MakeKey(G1, SecA), subjects |-> <<"English">>]>>},
     classGrade : {G1}, classSection : {SecA, SecB}]

RaceClearBodies == [user : {SuperActor}, schoolId : {"s1"}, tutorId : {"t1", "t2"}]

\* a request that arrives while no section has a class tutor
RaceBegin(r, args) ==
    /\ \A c \in sections : c.classTutorId = NULL
    /\ SmartAssignBegin(r, args)

NextRace ==
    \E r \in Slots :
        \/ \E args \in RaceBodies : RaceBegin(r, args)
        \/ SmartAssignCommit(r)
        \/ \E args \in RaceClearBodies : DeleteAllTutorAssignmentsBegin(r, args)
        \/ DeleteAllTutorAssignmentsCommit(r)

SpecRace == InitClass /\ [][NextRace]_vars

\* this step answers a smartAssignTutor request that was started while its class
\* section was vacant, right after the request of another tutor for the same section
\* was answered with that section as its classTutorAssignment
SecondOfRace ==
    /\ resp.op = "smartAssignTutor"
    /\ resp.status = 201
    /\ resp.out.classTutor # NULL
    /\ Responds
    /\ resp'.op = "smartAssignTutor"
    /\ reqs' # reqs
    /\ resp'.args.tutorId # resp.args.tutorId
    /\ resp'.args.classGrade = resp.args.classGrade
    /\ resp'.args.classSection = resp.args.classSection
    /\ \E c \in sections : c.id = resp.out.classTutor /\ c.classTutorId = resp.args.tutorId

EnglishInA == <<[key |-> MakeKey(G1, SecA), subjects |-> <<"English">>]>>

AtomicAssignBodies == [user : {SuperActor}, schoolId : {"s1"}, tutorId : {"t1"},
                       assignments : {EnglishInA}, classGrade : {G1}, classSection : {SecA}]

AtomicReplaceBodies == [user : {SuperActor}, schoolId : {"s1", "s9"}, tutorId : {"t1", NULL},
                        assignments : {<<>>, EnglishInA},
                        classGrade : {<<>>, G1}, classSection : {SecA}]

AtomicSubjectBodies == [user : {SuperActor}, schoolId : {"s1"}, sectionId : {"c1"},
                        subjects : {<<>>, <<"English">>}]

NextAtomic ==
    \/ \E args \in AtomicAssignBodies : SmartAssignBegin("r1", args)
    \/ SmartAssignCommit("r1")
    \/ \E args \in AtomicSubjectBodies : UpdateSectionSubjectsBegin("r1", args)
    \/ UpdateSectionSubjectsCommit("r1")
    \/ \E args \in AtomicReplaceBodies : UpdateTutorAssignmentsBegin("r1", args)
    \/ UpdateTutorAssignmentsDelete("r1")
    \/ UpdateTutorAssignmentsCheck("r1")
    \/ UpdateTutorAssignmentsCommit("r1")

SpecAtomic == InitClass /\ [][NextAtomic]_vars

\* what a tutor holds: its assignments and the sections it is class tutor of
Holdings(tutorId) ==
    [subjects |-> {a \in assignments : a.tutorId = tutorId},
     classes |-> {c.id : c \in {x \in sections : x.classTutorId = tutorId}}]

\* C22: updateTutorAssignments is atomic: only the step that answers 201 changes what
\* the tutor holds; a request answered with an error status leaves the tutor's subject
\* assignments and class-tutor designations as they were, and no step in between shows
\* a state where the old assignments are deleted and the new ones not yet made.
C22_UpdateTutorAssignmentsAtomic ==
    [][\A r \in Slots :
          (/\ reqs[r] # Idle
           /\ reqs[r].op = "updateTutorAssignments"
           /\ reqs'[r] # reqs[r]
           /\ ~(Responds /\ resp'.status = 201))
          => Holdings(reqs[r].args.tutorId)' = Holdings(reqs[r].args.tutorId)]_vars

(***************************************************************************)
(* smartAssignTutor and assignSubjectToTutor on the same pairs, two        *)
(* requests in flight                                                      *)
(***************************************************************************)
PairAssignBodies == [user : {SuperActor}, schoolId : {"s1"}, tutorId : {"t1", "t2"},
                     assignments : {EnglishInA}, classGrade : {<<>>}, classSection : {<<>>}]

PairSubjectBodies == [user : {SuperActor}, schoolId : {"s1"}, tutorId : {"t1", "t2", NULL},
                      sectionSubjectId : {"x1", "x9"}]

NextPair ==
    \E r \in Slots :
        \/ \E args \in PairAssignBodies : SmartAssignBegin(r, args)
        \/ SmartAssignCommit(r)
        \/ \E args \in PairSubjectBodies : AssignSubjectToTutorBegin(r, args)
        \/ AssignSubjectToTutorCommit(r)

SpecPair == InitClass /\ [][NextPair]_vars

OnePerPair ==
    \A a, b \in assignments :
        (a.tutorId = b.tutorId /\ a.sectionSubjectId = b.sectionSubjectId) => a = b

\* this step is the create of a request that lost the race: the row of its pair was
\* made after the request looked for it
LosesRace(r) ==
    /\ reqs[r] # Idle
    /\ reqs[r].op = "assignSubjectToTutor"
    /\ reqs[r].snap = NULL
    /\ reqs'[r] = Idle
    /\ \E a \in assignments : /\ a.tutorId = reqs[r].args.tutorId
                              /\ a.sectionSubjectId = reqs[r].args.sectionSubjectId

\* C23: with smartAssignTutor and assignSubjectToTutor requests interleaved, there is
\* never more than one TutorSubjectAssignment per (tutorId, sectionSubjectId); a request
\* whose create loses the race for a pair is answered 409, not 500, and a request
\* answered 409 leaves no row behind.
C23_OneAssignmentPerPair ==
    /\ []OnePerPair
    /\ [][/\ \A r \in Slots : LosesRace(r) => (Responds /\ resp'.status = 409)
          /\ (/\ Responds
              /\ resp'.op \in {"smartAssignTutor", "assignSubjectToTutor"}
              /\ resp'.status = 409) => UNCHANGED dbvars]_vars

C23_Witness ==
    /\ resp.op = "assignSubjectToTutor"
    /\ resp.status = 409
    /\ resp.out.errors # <<>>
    /\ \E a \in assignments : /\ a.tutorId = resp.args.tutorId
                              /\ a.sectionSubjectId = resp.args.sectionSubjectId
    /\ OnePerPair

(***************************************************************************)
(* The keys of the assignments map: one smartAssignTutor request with one  *)
(* key, every string over KeyChars up to MaxKeyLen characters              *)
(***************************************************************************)
KeyChars == {"G", "1", "-", "A", "a", "\n"}

\* the request whose assignments map is {key: []}
ParseBody(k) ==
    [user |-> SuperActor, schoolId |-> "s1", tutorId |-> "t1",
     assignments |-> <<[key |-> k, subjects |-> <<>>]>>,
     classGrade |-> <<>>, classSection |-> <<>>]

\* one request, the first after start
NextParse ==
    \/ /\ resp = NoResp
       /\ reqs["r1"] = Idle
       /\ \E n \in 0..MaxKeyLen :
             \E k \in [1..n -> KeyChars] : SmartAssignBegin("r1", ParseBody(k))
    \/ SmartAssignCommit("r1")

SpecParse == InitClass /\ [][NextParse]_vars

\* the key is a grade name of at least one character, "-", and one uppercase letter
EndsInDashUpper(k) == Len(k) >= 3 /\ k[Len(k) - 1] = "-" /\ k[Len(k)] \in Upper

\* the key ends in "-" and one uppercase letter
EndsInDashUpperOnly(k) == Len(k) >= 2 /\ k[Len(k) - 1] = "-" /\ k[Len(k)] \in Upper

InvalidKey(k) == <<[kind |-> "key", key |-> k]>>

\* the key of the answered request splits into (everything before the last "-", the
\* last letter) when splits holds, and is rejected when rejected holds
KeyRoundTrip(splits, rejected) ==
    (resp.op = "smartAssignTutor" /\ resp.status = 201)
    => LET k == resp.args.assignments[1].key
           n == Len(k)
       IN /\ splits
             => /\ ParseKey(k) = [ok |-> TRUE, gradeName |-> SubSeq(k, 1, n - 2),
                                  sectionName |-> <<k[n]>>]
                /\ resp.out.errors # InvalidKey(k)
          /\ rejected => resp.out.errors = InvalidKey(k)

AnsweredKey == resp.args.assignments[1].key

HasLineTerminator(k) == \E i \in 1..(Len(k) - 2) : k[i] \in LineTerminators

\* C24 as stated: for every non-empty grade name g and single uppercase letter s the key
\* g + "-" + s is parsed to exactly (g, s), also when g ends in "-<uppercase letter>";
\* every key that does not end in "-" and one uppercase letter is rejected with an
\* "Invalid key format" error.
C24_KeyRoundTrip_AnyGrade ==
    (resp.op = "smartAssignTutor")
    => KeyRoundTrip(EndsInDashUpper(AnsweredKey), ~EndsInDashUpperOnly(AnsweredKey))

\* C24, amended: the same for grade names without a line terminator; a key whose grade
\* part holds a line terminator is rejected as well.
C24_KeyRoundTrip ==
    (resp.op = "smartAssignTutor")
    => KeyRoundTrip(EndsInDashUpper(AnsweredKey) /\ ~HasLineTerminator(AnsweredKey),
                    ~EndsInDashUpperOnly(AnsweredKey) \/ HasLineTerminator(AnsweredKey))

\* the key "G-A-A" was answered as grade "G-A", section "A"
C24_Witness ==
    /\ resp.op = "smartAssignTutor"
    /\ resp.status = 201
    /\ AnsweredKey = <<"G", "-", "A", "-", "A">>
    /\ resp.out.errors = <<[kind |-> "grade", key |-> AnsweredKey]>>

\* C25: updateTutor with an email that a different Tutor has, or a User other than the
\* tutor's own linked User (a school admin, say), answers 409 and leaves the Tutor and
\* its linked User as they were.
C25_UpdateTutorEmailConflictIs409 ==
    [][(/\ Responds
        /\ resp'.op = "updateTutor"
        /\ resp'.args.email # Undefined
        /\ \E t \in tutors : t.id = resp'.args.tutorId /\ t.email # resp'.args.email
        /\ \/ \E t \in tutors : t.id # resp'.args.tutorId /\ t.email = resp'.args.email
           \/ \E u \in users : u.tutorId # resp'.args.tutorId /\ u.email = resp'.args.email)
       => /\ resp'.status = 409
          /\ tutors' = tutors
          /\ users' = users]_vars

(***************************************************************************)
(* Two updateSectionSubjects requests for section c1 that both start       *)
(* before either is answered                                               *)
(***************************************************************************)
TwoSubjectBodies ==
    [user : {SuperActor}, schoolId : {"s1"}, sectionId : {"c1"},
     subjects : {<<>>, <<"English">>, <<"Maths">>, <<"Science">>, <<"English", "Maths">>,
                 <<"Maths", "Science">>}]

NextTwoSubjects ==
    \E r \in Slots :
        \/ /\ resp = NoResp
           /\ \E args \in TwoSubjectBodies : UpdateSectionSubjectsBegin(r, args)
        \/ UpdateSectionSubjectsCommit(r)

SpecTwoSubjects == InitClass /\ [][NextTwoSubjects]_vars

\* C26: when two updateSectionSubjects requests for the same section run concurrently,
\* the section's final set of active subject names is the desired list of one of the
\* two (as if they had run in some serial order), and no subject is left active that
\* both lists omit.
C26_ConcurrentSubjectsSerial ==
    [][\A r \in Slots :
          (/\ resp.op = "updateSectionSubjects"
           /\ reqs[r] # Idle
           /\ reqs[r].op = "updateSectionSubjects"
           /\ reqs[r].args.sectionId = resp.args.sectionId
           /\ reqs'[r] = Idle)
          => LET first == Range(resp.args.subjects)
                 second == Range(reqs[r].args.subjects)
             IN /\ ActiveNames(resp.args.sectionId)' \in {first, second}
                /\ ActiveNames(resp.args.sectionId)' \subseteq first \cup second]_vars

(***************************************************************************)
(* From an empty system: every operation that writes assignments, one      *)
(* request at a time                                                       *)
(***************************************************************************)
LifeGradeBodies ==
    [user : {SuperActor}, schoolId : SchoolIds, gradeName : {G1}, order : {<<>>},
     sections : {<<[name |-> SecA, subjects |-> <<"English">>]>>}]

LifeAssignBodies ==
    [user : {SuperActor}, schoolId : SchoolIds, tutorId : TutorIds,
     assignments : {<<>>, EnglishInA}, classGrade : {<<>>}, classSection : {<<>>}]

LifeSubjectBodies ==
    [user : {SuperActor}, schoolId : SchoolIds, tutorId : TutorIds,
     sectionSubjectId : {x.id : x \in subjects}]

LifeRemoveBodies ==
    [user : {SuperActor}, schoolId : SchoolIds, assignmentId : {a.id : a \in assignments}]

LifeClearBodies == [user : {SuperActor}, schoolId : SchoolIds, tutorId : TutorIds]

NextLife ==
    \/ \E body \in E2ESchoolBodies : CreateSchoolBegin("r1", body)
    \/ CreateSchoolCommit("r1")
    \/ \E args \in LifeGradeBodies : CreateGradeBegin("r1", args)
    \/ CreateGradeCommit("r1")
    \/ \E args \in E2ETutorBodies : CreateTutorBegin("r1", args)
    \/ CreateTutorCommit("r1")
    \/ \E args \in LifeAssignBodies : SmartAssignBegin("r1", args)
    \/ SmartAssignCommit("r1")
    \/ \E args \in LifeSubjectBodies : AssignSubjectToTutorBegin("r1", args)
    \/ AssignSubjectToTutorCommit("r1")
    \/ \E args \in LifeRemoveBodies : RemoveAssignmentBegin("r1", args)
    \/ RemoveAssignmentCommit("r1")
    \/ \E args \in LifeClearBodies : DeleteAllTutorAssignmentsBegin("r1", args)
    \/ DeleteAllTutorAssignmentsCommit("r1")
    \/ \E args \in LifeAssignBodies : UpdateTutorAssignmentsBegin("r1", args)
    \/ UpdateTutorAssignmentsDelete("r1")
    \/ UpdateTutorAssignmentsCheck("r1")
    \/ UpdateTutorAssignmentsCommit("r1")

SpecLife == InitSeed /\ [][NextLife]_vars

\* C27: starting from an empty database and using only the API operations, every
\* TutorSubjectAssignment row is active in every reachable state: no operation sets an
\* assignment's isActive to false, so assignSubjectToTutor never finds an inactive row
\* to reactivate (its 200 answer) and neither does smartAssignTutor.
C27_AssignmentsAlwaysActive ==
    /\ \A a \in assignments : a.isActive
    /\ ~(resp.op = "assignSubjectToTutor" /\ resp.status = 200)
    /\ \A r \in Slots :
          (reqs[r] # Idle /\ reqs[r].op = "assignSubjectToTutor") => reqs[r].snap = NULL

\* an assignment was removed and the same pair was assigned again, as a new row
C27_Witness ==
    /\ resp.op = "assignSubjectToTutor"
    /\ resp.status = 201
    /\ Logged("DELETE_ALL_TUTOR_ASSIGNMENTS", resp.args.tutorId) \in auditLog
    /\ Logged("ASSIGN_TUTOR", resp.args.tutorId) \in auditLog
    /\ \E a \in assignments : a.id = resp.out.id /\ a.isActive

\* the school of the grade a section belongs to
SchoolOfSection(sectionId) ==
    {g.schoolId : g \in {x \in grades : \E c \in sections : c.id = sectionId /\ c.gradeId = x.id}}

SchoolOfTutor(tutorId) == {t.schoolId : t \in {x \in tutors : x.id = tutorId}}

\* C28: every link between a tutor and a section joins entities of one school: the
\* class tutor of a section is a Tutor of the school of the section's grade, and the
\* tutor of a TutorSubjectAssignment is of the school of the grade of the section of
\* its SectionSubject.
C28_LinksWithinSchool ==
    /\ \A c \in sections :
          c.classTutorId # NULL => SchoolOfTutor(c.classTutorId) = SchoolOfSection(c.id)
    /\ \A a \in assignments :
          \A x \in subjects :
             x.id = a.sectionSubjectId => SchoolOfTutor(a.tutorId) = SchoolOfSection(x.sectionId)

\* C29: the two read views agree for active tutors: tutor T is listed among the tutors
\* of subject X in section S of grade G by listGrades if and only if X appears under
\* key "G-S" in T's entry of listAssignmentsGrouped, also after updateSectionSubjects
\* has deactivated a subject that still has assignments.
C29_ViewsAgree ==
    \A t \in {x \in tutors : x.schoolId = "s1" /\ x.isActive} :
        {[key |-> l.grade \o <<"-">> \o l.section, subject |-> l.subject] :
            l \in {m \in ListGrades(DB, "s1") : t.id \in m.tutors}}
        = {[key |-> e.key, subject |-> e.subject] :
            e \in {f \in GroupedSubjects(DB, "s1") : f.tutorId = t.id}}

(***************************************************************************)
(* The edit dialog: a tutor's listAssignmentsGrouped entry sent back to    *)
(* updateTutorAssignments, one request at a time                           *)
(***************************************************************************)
\* the orders a set can be returned in
SeqsOver(S) == {f \in [1..Cardinality(S) -> S] : \A i, j \in 1..Cardinality(S) :
                                                    f[i] = f[j] => i = j}

\* the assignments object of one tutor's entry: its keys in the order they were first
\* seen, each with its subject names without duplicates; the store fixes no order
GroupedMaps(d, schoolId, tutorId) ==
    LET mine == {e \in GroupedSubjects(d, schoolId) : e.tutorId = tutorId}
        keys == {e.key : e \in mine}
        Names(k) == {e.subject : e \in {f \in mine : f.key = k}}
    IN {[i \in 1..Cardinality(keys) |-> [key |-> ks[i], subjects |-> pick[ks[i]]]] :
           ks \in SeqsOver(keys),
           pick \in {p \in [keys -> UNION {SeqsOver(Names(k)) : k \in keys}] :
                        \A k \in keys : p[k] \in SeqsOver(Names(k))}}

\* classGrade and classSection of the entry: those of classSections[0], null without one
GroupedClasses(d, tutorId) ==
    IF ClassSections(d, tutorId) = {} THEN {[classGrade |-> NULL, classSection |-> NULL]}
    ELSE {[classGrade |-> (CHOOSE g \in d.grades : g.id = c.gradeId).name,
           classSection |-> c.name] : c \in ClassSections(d, tutorId)}

\* listAssignmentsGrouped: the entries the response can hold for one tutor
ListAssignmentsGrouped(d, schoolId, tutorId) ==
    {[tutorId |-> tutorId, assignments |-> m, classGrade |-> c.classGrade,
      classSection |-> c.classSection] :
        m \in GroupedMaps(d, schoolId, tutorId), c \in GroupedClasses(d, tutorId)}

\* handleEditAssignment then handleAssignTutor: the entry as the body of the PUT, a
\* null classGrade or classSection sent as the empty string
EditBody(schoolId, entry) ==
    [user |-> SuperActor, schoolId |-> schoolId, tutorId |-> entry.tutorId,
     assignments |-> entry.assignments,
     classGrade |-> IF entry.classGrade = NULL THEN <<>> ELSE entry.classGrade,
     classSection |-> IF entry.classSection = NULL THEN <<>> ELSE entry.classSection]

\* updateTutorAssignments run to its answer with no other request in between
UpdateTutorAssignmentsRun(d, args) ==
    LET d1 == DeleteAllTutorAssignmentsTx(d, args)
        c == SmartAssignCheck(d1, args)
        acc == SmartAssignTx(d1, args)
    IN IF AdminGuard(args) # 0 THEN [d |-> d, status |-> AdminGuard(args)]
       ELSE IF SmartAssignCheck(d, args) # 0 THEN [d |-> d, status |-> SmartAssignCheck(d, args)]
       ELSE IF c # 0 THEN [d |-> d1, status |-> c]
       ELSE [d |-> Transaction(d1, acc.st), status |-> SmartAssignStatus(acc)]

EditAssignBodies == [user : {SuperActor}, schoolId : {"s1"}, tutorId : {"t1"},
                     assignments : {EnglishInA,
                                    <<[key |-> MakeKey(G1, SecA),
                                       subjects |-> <<"English", "Maths">>]>>},
                     classGrade : {<<>>, G1}, classSection : {SecA}]

EditSectionBodies == [user : {SuperActor}, schoolId : {"s1"}, sectionId : {"c1"},
                      subjects : {<<>>, <<"English">>}]

NextRoundTrip ==
    \/ \E args \in EditAssignBodies : SmartAssignBegin("r1", args)
    \/ SmartAssignCommit("r1")
    \/ \E args \in EditSectionBodies : UpdateSectionSubjectsBegin("r1", args)
    \/ UpdateSectionSubjectsCommit("r1")
    \/ \E t \in GroupedTutors(DB, "s1") :
          \E entry \in ListAssignmentsGrouped(DB, "s1", t) :
             UpdateTutorAssignmentsBegin("r1", EditBody("s1", entry))
    \/ UpdateTutorAssignmentsDelete("r1")
    \/ UpdateTutorAssignmentsCheck("r1")
    \/ UpdateTutorAssignmentsCommit("r1")

SpecRoundTrip == InitClass /\ [][NextRoundTrip]_vars

\* the (section, subject name) pairs a tutor is assigned to
AssignedPairs(d, tutorId) ==
    {<<x.sectionId, x.name>> :
        x \in {s \in d.subjects : \E a \in d.assignments :
                  a.tutorId = tutorId /\ a.sectionSubjectId = s.id /\ a.isActive}}

\* the sections a tutor is class tutor of
ClassTutorOf(d, tutorId) == {c.id : c \in {x \in d.sections : x.classTutorId = tutorId}}

\* C30: edit round trip: in every reachable state, for every tutor with an entry in
\* listAssignmentsGrouped, sending that entry (assignments, classGrade, classSection)
\* unchanged to updateTutorAssignments answers 201 and leaves the tutor's set of
\* (section, subject) assignments and the set of sections it is class tutor of as
\* they were.
C30_EditRoundTrip ==
    reqs["r1"] = Idle =>
        \A t \in GroupedTutors(DB, "s1") :
            \A entry \in ListAssignmentsGrouped(DB, "s1", t) :
                LET out == UpdateTutorAssignmentsRun(DB, EditBody("s1", entry)) IN
                /\ out.status = 201
                /\ AssignedPairs(out.d, t) = AssignedPairs(DB, t)
                /\ ClassTutorOf(out.d, t) = ClassTutorOf(DB, t)

====
